---- MODULE Spec2Model ----
(***************************************************************************)
(* A model of rair's I/O core: the RIO facade (io/src/io.rs), the          *)
(* descriptor index it drives, and the Intel HEX plugin                    *)
(* (io/src/plugins/ihex.rs).                                               *)
(*                                                                         *)
(* A file on disk is a sequence: of bytes for a raw file, of records for   *)
(* an Intel HEX file (one record per text line: byte count, 16-bit         *)
(* address, type, payload bytes, checksum field).                          *)
(***************************************************************************)
EXTENDS Integers, Sequences, FiniteSets, TLC

\* Bounds of the model.
MaxAddr == 5        \* addresses handed to open_at, pread and pwrite are 0..MaxAddr
MaxLen == 3         \* longest buffer handed to pread and pwrite
MaxHndl == 3        \* SpecAlloc: opens stop once next_hndl reaches MaxHndl
MaxOpen == 2        \* Spec: opens stop once next_hndl reaches MaxOpen
MaxWrites == 2      \* pwrite calls per run
MaxPlugins == 3     \* registry length load_plugin stops at
MaxMapAddr == 1     \* SpecMap: map takes paddr in 0..MaxMapAddr
MaxVaddr == 2       \* SpecMap: virtual addresses handed to map, unmap, vir_to_phy are 0..MaxVaddr
MaxMapLen == 3      \* SpecMap: map takes a size in 1..MaxMapLen
MaxMaps == 2        \* SpecMap: map is called while fewer than MaxMaps entries are stored
MaxMap == 1         \* SpecAlloc: map takes paddr and vaddr in 0..MaxMap, size 1..MaxMap
MaxVwrites == 1     \* SpecVirt: vwrite calls per run
MaxVirtLen == 2     \* SpecVirt: map takes a size in 1..MaxVirtLen
MaxRecs == 4        \* SpecIHex: the HEX files hold up to MaxRecs records
MaxSeedRecs == 2   \* records of a seed file before its EOF record
MaxWord == 3       \* letters of a key of the BK-tree
MaxKeys == 2       \* keys inserted into the BK-tree
MaxTolerance == 2  \* the tolerance of a find
MaxLoc == 3        \* SpecMode: locations and virtual addresses
MaxFlushes == 1    \* SpecFlush: writes through the plugin

VARIABLES
    plugins,    \* RIO.plugins: the registry, a sequence of plugin kinds
    descs,      \* RIO.descs: handle -> descriptor, for the live handles
    next_hndl,  \* RIO.descs: the next handle to hand out
    maps,       \* RIO.maps: the set of map entries
    disk,       \* the file system: path -> file content
    last,       \* the last call on the RIO, its arguments and what it returned
    nwrites,    \* pwrite calls so far
    returned,   \* the handles open and open_at have returned so far
    tree,       \* a SpellTree: its root, and the keys inserted so far
    core,       \* Core: the address mode and the current location
    flush       \* the flushing write in progress on the HEX file, if any

vars == <<plugins, descs, next_hndl, maps, disk, last, nwrites, returned,
          tree, core, flush>>

None == "None"

\* Option::is_some for a value that is None or a number
IsSome(x) == ToString(x) # ToString(None)

\* ------------------------------------------------------------------------
\* Sparse byte maps (BTreeMap<u64, u8>) as functions key -> byte.

EmptyBytes == [k \in {} |-> 0]

MinKey(b) == CHOOSE k \in DOMAIN b : \A j \in DOMAIN b : k <= j

MaxKey(b) == CHOOSE k \in DOMAIN b : \A j \in DOMAIN b : k >= j

\* bytes.insert(start + i, buffer[i]) for every i
InsertAll(b, start, buffer) ==
    LET new == {start + i - 1 : i \in 1..Len(buffer)}
    IN  [k \in DOMAIN b \cup new |->
            IF k \in new THEN buffer[k - start + 1] ELSE b[k]]

\* The keys of a sparse map in ascending order.
RECURSIVE SortedKeys(_)
SortedKeys(S) ==
    IF S = {} THEN <<>>
    ELSE LET m == CHOOSE k \in S : \A j \in S : k <= j
         IN  <<m>> \o SortedKeys(S \ {m})

\* ------------------------------------------------------------------------
\* Permissions (IoMode) are sets over these names.

IoModes == {"READ", "WRITE", "COW"}

PermissionDenied == "Parse(PermissionDenied)"

\* What a plugin holds as its file: a handle on the raw file, or the
\* placeholder Dummy {} that holds none.
File == "File"

Dummy == "Dummy"

\* IoError::Parse(e) for an io::Error e of the file system
IoFailed == "Parse(io::Error)"

\* ------------------------------------------------------------------------
\* Intel HEX: parsing.

Rec(typ, cnt, addr, data, cks) ==
    [typ |-> typ, cnt |-> cnt, addr |-> addr, data |-> data, cks |-> cks]

IsByte(x) == x \in 0..255

RECURSIVE SumData(_)
SumData(d) == IF d = <<>> THEN 0 ELSE Head(d) + SumData(Tail(d))

\* Mutant of ParseRecordOk: the checksum is verified, the bytes of a record
\* must add up to 0 modulo 256.
ParseRecordOk_checksum(r) ==
    /\ IsByte(r.cnt) /\ r.addr \in 0..65535 /\ IsByte(r.cks)
    /\ \A i \in 1..Len(r.data) : IsByte(r.data[i])
    /\ CASE r.typ = 0 -> Len(r.data) = r.cnt
         [] r.typ = 1 -> r.cnt = 0 /\ Len(r.data) = 0
         [] r.typ \in {2, 4} -> r.cnt = 2 /\ Len(r.data) = 2
         [] r.typ \in {3, 5} -> r.cnt = 4 /\ Len(r.data) = 4
         [] OTHER -> FALSE
    /\ (r.cnt + (r.addr \div 256) + (r.addr % 256) + r.typ + SumData(r.data)
          + r.cks) % 256 = 0

\* What parse_record00 .. parse_record05 accept: two hex digits per byte, the
\* byte count the record type fixes, a two-digit checksum field whose value is
\* not looked at.
ParseRecordOk(r) ==
    /\ IsByte(r.cnt) /\ r.addr \in 0..65535 /\ IsByte(r.cks)
    /\ \A i \in 1..Len(r.data) : IsByte(r.data[i])
    /\ CASE r.typ = 0 -> Len(r.data) = r.cnt
         [] r.typ = 1 -> r.cnt = 0 /\ Len(r.data) = 0
         [] r.typ \in {2, 4} -> r.cnt = 2 /\ Len(r.data) = 2
         [] r.typ \in {3, 5} -> r.cnt = 4 /\ Len(r.data) = 4
         [] OTHER -> FALSE

hex_big_word(d, i) == d[i] * 256 + d[i + 1]

hex_big_dword(d) == hex_big_word(d, 1) * 65536 + hex_big_word(d, 3)

\* Mutant of parse_ihex: a type-04 record sets the base as a type-02 record
\* does, shifted by 4.
RECURSIVE parse_ihex_segment_only(_, _, _, _)
parse_ihex_segment_only(recs, line, base, st) ==
    IF line > Len(recs) \/ ~ParseRecordOk(recs[line])
    THEN [ok |-> FALSE, err |-> <<"Custom", "Invalid Ihex entry at line", line>>]
    ELSE LET r == recs[line]
         IN  CASE r.typ = 1 -> [ok |-> TRUE, st |-> st]
               [] r.typ = 0 ->
                    parse_ihex_segment_only(recs, line + 1, base,
                        [st EXCEPT !.bytes = InsertAll(@, r.addr + base, r.data)])
               [] r.typ = 2 ->
                    parse_ihex_segment_only(recs, line + 1, hex_big_word(r.data, 1) * 16, st)
               [] r.typ = 4 ->
                    parse_ihex_segment_only(recs, line + 1, hex_big_word(r.data, 1) * 16, st)
               [] r.typ = 3 ->
                    parse_ihex_segment_only(recs, line + 1, base,
                        [st EXCEPT !.ssa = hex_big_dword(r.data)])
               [] r.typ = 5 ->
                    parse_ihex_segment_only(recs, line + 1, base,
                        [st EXCEPT !.sla = hex_big_dword(r.data)])

\* Mutant of parse_ihex: the error names the records counted from 0.
RECURSIVE parse_ihex_zero_indexed(_, _, _, _)
parse_ihex_zero_indexed(recs, line, base, st) ==
    IF line > Len(recs) \/ ~ParseRecordOk(recs[line])
    THEN [ok |-> FALSE, err |-> <<"Custom", "Invalid Ihex entry at line", line - 1>>]
    ELSE LET r == recs[line]
         IN  CASE r.typ = 1 -> [ok |-> TRUE, st |-> st]
               [] r.typ = 0 ->
                    parse_ihex_zero_indexed(recs, line + 1, base,
                        [st EXCEPT !.bytes = InsertAll(@, r.addr + base, r.data)])
               [] r.typ = 2 ->
                    parse_ihex_zero_indexed(recs, line + 1, hex_big_word(r.data, 1) * 16, st)
               [] r.typ = 4 ->
                    parse_ihex_zero_indexed(recs, line + 1, hex_big_word(r.data, 1) * 65536, st)
               [] r.typ = 3 ->
                    parse_ihex_zero_indexed(recs, line + 1, base,
                        [st EXCEPT !.ssa = hex_big_dword(r.data)])
               [] r.typ = 5 ->
                    parse_ihex_zero_indexed(recs, line + 1, base,
                        [st EXCEPT !.sla = hex_big_dword(r.data)])

\* parse_ihex: the loop over the records, from record number `line`.
RECURSIVE parse_ihex(_, _, _, _)
parse_ihex(recs, line, base, st) ==
    IF line > Len(recs) \/ ~ParseRecordOk(recs[line])
    THEN [ok |-> FALSE, err |-> <<"Custom", "Invalid Ihex entry at line", line>>]
    ELSE LET r == recs[line]
         IN  CASE r.typ = 1 -> [ok |-> TRUE, st |-> st]
               [] r.typ = 0 ->
                    parse_ihex(recs, line + 1, base,
                        [st EXCEPT !.bytes = InsertAll(@, r.addr + base, r.data)])
               [] r.typ = 2 ->
                    parse_ihex(recs, line + 1, hex_big_word(r.data, 1) * 16, st)
               [] r.typ = 4 ->
                    parse_ihex(recs, line + 1, hex_big_word(r.data, 1) * 65536, st)
               [] r.typ = 3 ->
                    parse_ihex(recs, line + 1, base,
                        [st EXCEPT !.ssa = hex_big_dword(r.data)])
               [] r.typ = 5 ->
                    parse_ihex(recs, line + 1, base,
                        [st EXCEPT !.sla = hex_big_dword(r.data)])

\* Mutant of size: the number of occupied keys, holes not counted.
size_occupied(bytes) == Cardinality(DOMAIN bytes)

\* FileInternals::size and FileInternals::base
size(bytes) == IF DOMAIN bytes = {} THEN 0 ELSE MaxKey(bytes) - MinKey(bytes) + 1

base(bytes) == IF DOMAIN bytes = {} THEN 0 ELSE MinKey(bytes)

\* ------------------------------------------------------------------------
\* Intel HEX: serialization.

to_be_bytes16(x) == <<(x \div 256) % 256, x % 256>>

to_be_bytes32(x) == to_be_bytes16((x \div 65536) % 65536) \o to_be_bytes16(x % 65536)

\* checksum = (checksum + byte) & 0xFF for every byte
RECURSIVE SumBytes(_, _)
SumBytes(checksum, bs) ==
    IF bs = <<>> THEN checksum
    ELSE SumBytes((checksum + Head(bs)) % 256, Tail(bs))

write_sa(ssa, sla) ==
    (IF IsSome(ssa)
     THEN <<Rec(3, 4, 0, to_be_bytes32(ssa), 256 - SumBytes(4 + 3, to_be_bytes32(ssa)))>>
     ELSE <<>>)
    \o
    (IF IsSome(sla)
     THEN <<Rec(5, 4, 0, to_be_bytes32(sla), 256 - SumBytes(4 + 5, to_be_bytes32(sla)))>>
     ELSE <<>>)

write_record04(k) ==
    LET addr == (k \div 65536) % 65536
    IN  Rec(4, 2, 0, to_be_bytes16(addr), 256 - SumBytes(6, to_be_bytes16(addr)))

write_record02(k) ==
    LET addr == ((((k \div 16) % 65536) \div 4096) * 4096)
    IN  Rec(2, 2, 0, to_be_bytes16(addr), 256 - SumBytes(4, to_be_bytes16(addr)))

\* Mutant of write_data_loop: a line is closed when it holds 16 bytes only,
\* a key that does not follow the previous one goes on the same line.
RECURSIVE write_data_loop_rows(_, _, _)
write_data_loop_rows(bytes, keys, s) ==
    IF keys = <<>>
    THEN IF s.data # <<>>
         THEN s.out \o <<Rec(0, s.i, s.offset, s.data, 256 - s.checksum)>>
         ELSE s.out
    ELSE
    LET k == Head(keys)
        v == bytes[k]
        brk == s.i # 0 /\ s.i = 16
        s1 == IF s.i = 0 THEN s
              ELSE IF brk
                   THEN [s EXCEPT
                           !.out = @ \o <<Rec(0, s.i, s.offset, s.data,
                                              (256 - s.checksum) % 256)>>,
                           !.data = <<>>, !.checksum = 16, !.i = 0]
                   ELSE [s EXCEPT
                           !.addr = k, !.data = @ \o <<v>>,
                           !.checksum = (@ + v) % 256]
        offset == k % 65536
        s2 == IF s1.i # 0 THEN s1
              ELSE [s1 EXCEPT
                      !.out = @ \o (IF k > 1048575 THEN <<write_record04(k)>>
                                    ELSE IF k > 65535 THEN <<write_record02(k)>>
                                    ELSE <<>>),
                      !.offset = offset,
                      !.addr = k,
                      !.data = <<v>>,
                      !.checksum = (SumBytes(s1.checksum, to_be_bytes16(offset)) + v) % 256]
    IN  write_data_loop_rows(bytes, Tail(keys), [s2 EXCEPT !.i = @ + 1])

\* write_data: the loop over the sorted keys; s is the loop's state
\* (checksum, addr, the line under construction, i) and the lines written.
RECURSIVE write_data_loop(_, _, _)
write_data_loop(bytes, keys, s) ==
    IF keys = <<>>
    THEN IF s.data # <<>>
         THEN s.out \o <<Rec(0, s.i, s.offset, s.data, 256 - s.checksum)>>
         ELSE s.out
    ELSE
    LET k == Head(keys)
        v == bytes[k]
        \* if i != 0 { ... }
        brk == s.i # 0 /\ (s.i = 16 \/ k # s.addr + 1)
        s1 == IF s.i = 0 THEN s
              ELSE IF brk
                   THEN [s EXCEPT
                           !.out = @ \o <<Rec(0, s.i, s.offset, s.data,
                                              (256 - s.checksum) % 256)>>,
                           !.data = <<>>, !.checksum = 16, !.i = 0]
                   ELSE [s EXCEPT
                           !.addr = k, !.data = @ \o <<v>>,
                           !.checksum = (@ + v) % 256]
        \* if i == 0 { ... }
        offset == k % 65536
        s2 == IF s1.i # 0 THEN s1
              ELSE [s1 EXCEPT
                      !.out = @ \o (IF k > 1048575 THEN <<write_record04(k)>>
                                    ELSE IF k > 65535 THEN <<write_record02(k)>>
                                    ELSE <<>>),
                      !.offset = offset,
                      !.addr = k,
                      !.data = <<v>>,
                      !.checksum = (SumBytes(s1.checksum, to_be_bytes16(offset)) + v) % 256]
    IN  write_data_loop(bytes, Tail(keys), [s2 EXCEPT !.i = @ + 1])

write_data(bytes) ==
    write_data_loop(bytes, SortedKeys(DOMAIN bytes),
        [checksum |-> 16, addr |-> base(bytes), offset |-> 0, data |-> <<>>,
         i |-> 0, out |-> <<>>])

\* save_ihex: the file's new content (truncate, then write_sa, write_data, EOF)
save_ihex(bytes, ssa, sla) ==
    write_sa(ssa, sla) \o write_data(bytes) \o <<Rec(1, 0, 0, <<>>, 255)>>

\* ------------------------------------------------------------------------
\* The files and the URIs of the model.

Uri(scheme, path) == [scheme |-> scheme, path |-> path]

\* a raw file, the same file named with a scheme no plugin knows, a HEX file
URIs == {Uri("", "a"), Uri("badformat", "a"), Uri("ihex", "h")}

Perms == {p \in SUBSET IoModes : "READ" \in p}

PluginKinds == {"raw", "ihex"}

\* "a": two bytes.  "h": bytes at 1 and 3, a hole at 2.
InitDisk ==
    [p \in {"a", "h"} |->
        IF p = "a" THEN <<10, 11>>
        ELSE <<Rec(0, 1, 1, <<31>>, 223), Rec(0, 1, 3, <<33>>, 219),
               Rec(1, 0, 0, <<>>, 255)>>]


\* ------------------------------------------------------------------------
\* Plugins.

\* a plugin the caller hands to load_plugin, not one load_plugins registers:
\* it takes the scheme badformat and opens the file as the default plugin does
ExtPlugin == "ext"

\* plugins::load_plugins: the plugins a new RIO starts with
load_plugins == <<"raw", "ihex">>

\* accept_uri: "ihex" takes scheme://body with the scheme ihex, the default
\* plugin a URI without a scheme.
accept_uri(kind, uri) ==
    IF kind = "ihex" THEN uri.scheme = "ihex"
    ELSE IF kind = ExtPlugin THEN uri.scheme = "badformat"
    ELSE uri.scheme = ""

\* The default plugin's open: the file's bytes at 0 .. size-1.
raw_open(uri, flags, dk) ==
    LET data == dk[uri.path]
    IN  [ok |-> TRUE, raddr |-> 0, size |-> Len(data),
         bytes |-> [k \in 0..(Len(data) - 1) |-> data[k + 1]],
         ssa |-> None, sla |-> None]

\* IHexPlugin::open
ihex_open(uri, flags, dk) ==
    IF ~accept_uri("ihex", uri)
    THEN [ok |-> FALSE, err |-> <<"Custom", "Invalid uri">>]
    ELSE LET data == dk[uri.path]
             internal == parse_ihex(data, 1, 0,
                            [bytes |-> EmptyBytes, ssa |-> None, sla |-> None])
         IN  IF ~internal.ok THEN internal
             ELSE [ok |-> TRUE, raddr |-> base(internal.st.bytes),
                   size |-> size(internal.st.bytes),
                   bytes |-> internal.st.bytes,
                   ssa |-> internal.st.ssa, sla |-> internal.st.sla]

plugin_open(kind, uri, flags, dk) ==
    IF kind = "ihex" THEN ihex_open(uri, flags, dk) ELSE raw_open(uri, flags, dk)

\* Mutant of ihex_read: an unoccupied key reads as an erased byte, 0xff.
ihex_read_erased(desc, raddr, n) ==
    [ok |-> TRUE,
     data |-> [i \in 1..n |->
                 IF (i - 1 + raddr) \in DOMAIN desc.bytes
                 THEN desc.bytes[i - 1 + raddr] ELSE 255]]

\* FileInternals::read: never fails, an unoccupied key reads 0
ihex_read(desc, raddr, n) ==
    [ok |-> TRUE,
     data |-> [i \in 1..n |->
                 IF (i - 1 + raddr) \in DOMAIN desc.bytes
                 THEN desc.bytes[i - 1 + raddr] ELSE 0]]

\* the default plugin's read
raw_read(desc, raddr, n) ==
    IF raddr + n > desc.size
    THEN [ok |-> FALSE, err |-> "Parse(UnexpectedEof)"]
    ELSE [ok |-> TRUE, data |-> [i \in 1..n |-> desc.bytes[i - 1 + raddr]]]

\* Mutant of ihex_write: the bytes are inserted before the permission check.
ihex_write_late_check(desc, raddr, buffer, dk) ==
    LET b == InsertAll(desc.bytes, raddr, buffer)
    IN  IF "COW" \notin desc.perm /\ "WRITE" \notin desc.perm
        THEN [ok |-> FALSE, err |-> PermissionDenied, bytes |-> b, disk |-> dk]
        ELSE IF "WRITE" \in desc.perm
        THEN [ok |-> TRUE, bytes |-> b,
              disk |-> [dk EXCEPT ![desc.name.path] = save_ihex(b, desc.ssa, desc.sla)]]
        ELSE [ok |-> TRUE, bytes |-> b, disk |-> dk]

\* Mutant of ihex_write: the file is rewritten under COW as well.
ihex_write_flush_cow(desc, raddr, buffer, dk) ==
    IF "COW" \notin desc.perm /\ "WRITE" \notin desc.perm
    THEN [ok |-> FALSE, err |-> PermissionDenied, bytes |-> desc.bytes, disk |-> dk]
    ELSE LET b == InsertAll(desc.bytes, raddr, buffer)
         IN  [ok |-> TRUE, bytes |-> b,
              disk |-> [dk EXCEPT ![desc.name.path] = save_ihex(b, desc.ssa, desc.sla)]]

\* FileInternals::write.  Returns the result, the descriptor's new sparse
\* map and the new disk.
ihex_write(desc, raddr, buffer, dk) ==
    IF "COW" \notin desc.perm /\ "WRITE" \notin desc.perm
    THEN [ok |-> FALSE, err |-> PermissionDenied, bytes |-> desc.bytes, disk |-> dk]
    ELSE LET b == InsertAll(desc.bytes, raddr, buffer)
         IN  IF "WRITE" \in desc.perm
             THEN [ok |-> TRUE, bytes |-> b,
                   disk |-> [dk EXCEPT ![desc.name.path] = save_ihex(b, desc.ssa, desc.sla)]]
             ELSE [ok |-> TRUE, bytes |-> b, disk |-> dk]

\* the default plugin's write: WRITE persists, COW keeps the bytes in memory
raw_write(desc, raddr, buffer, dk) ==
    IF "COW" \notin desc.perm /\ "WRITE" \notin desc.perm
    THEN [ok |-> FALSE, err |-> PermissionDenied, bytes |-> desc.bytes, disk |-> dk]
    ELSE IF raddr + Len(buffer) > desc.size
    THEN [ok |-> FALSE, err |-> "Parse(UnexpectedEof)", bytes |-> desc.bytes, disk |-> dk]
    ELSE LET b == InsertAll(desc.bytes, raddr, buffer)
         IN  IF "WRITE" \in desc.perm
             THEN [ok |-> TRUE, bytes |-> b,
                   disk |-> [dk EXCEPT ![desc.name.path] =
                               [i \in 1..Len(@) |->
                                   IF raddr < i /\ i <= raddr + Len(buffer)
                                   THEN buffer[i - raddr] ELSE @[i]]]]
             ELSE [ok |-> TRUE, bytes |-> b, disk |-> dk]

\* ------------------------------------------------------------------------
\* Descriptors (RIODesc) and the descriptor index (RIODescQuery).

\* RIODesc::read and RIODesc::write: the physical address becomes the
\* plugin's address, paddr - desc.paddr + desc.raddr.
desc_read(desc, paddr, n) ==
    IF desc.kind = "ihex" THEN ihex_read(desc, paddr - desc.paddr + desc.raddr, n)
    ELSE raw_read(desc, paddr - desc.paddr + desc.raddr, n)

desc_write(desc, paddr, buffer, dk) ==
    IF desc.kind = "ihex" THEN ihex_write(desc, paddr - desc.paddr + desc.raddr, buffer, dk)
    ELSE raw_write(desc, paddr - desc.paddr + desc.raddr, buffer, dk)

Covers(d, a) == d.paddr <= a /\ a < d.paddr + d.size

Intersects(d, at, n) == at < d.paddr + d.size /\ d.paddr < at + n

\* the live handles in ascending paddr
RECURSIVE ByPaddr(_, _)
ByPaddr(ds, H) ==
    IF H = {} THEN <<>>
    ELSE LET h == CHOOSE x \in H : \A y \in H :
                      <<ds[x].paddr, x>> = <<ds[y].paddr, y>>
                      \/ ds[x].paddr < ds[y].paddr
                      \/ (ds[x].paddr = ds[y].paddr /\ x < y)
         IN  <<h>> \o ByPaddr(ds, H \ {h})

\* paddr_range_to_hndl: the fragments (hndl, paddr, size) of [paddr, paddr+n)
\* in ascending order, or None when a byte of the range is in no descriptor.
RECURSIVE paddr_range_to_hndl(_, _, _)
paddr_range_to_hndl(ds, paddr, n) ==
    IF n = 0 THEN <<>>
    ELSE IF \A h \in DOMAIN ds : ~Covers(ds[h], paddr) THEN None
    ELSE LET h == CHOOSE x \in DOMAIN ds : Covers(ds[x], paddr)
             m == IF n < ds[h].paddr + ds[h].size - paddr
                  THEN n ELSE ds[h].paddr + ds[h].size - paddr
             rest == paddr_range_to_hndl(ds, paddr + m, n - m)
         IN  IF rest = None THEN None
             ELSE <<[hndl |-> h, paddr |-> paddr, size |-> m]>> \o rest

\* The descriptor a registration adds.
NewDesc(hndl, kind, plug, uri, flags, pd, paddr) ==
    [hndl |-> hndl, name |-> uri, perm |-> flags, paddr |-> paddr,
     size |-> pd.size, raddr |-> pd.raddr, kind |-> kind, plug |-> plug,
     bytes |-> pd.bytes, ssa |-> pd.ssa, sla |-> pd.sla, file |-> File]

Registered(ds, nh, d) ==
    [ok |-> TRUE, hndl |-> nh, next_hndl |-> nh + 1,
     descs |-> [h \in DOMAIN ds \cup {nh} |-> IF h = nh THEN d ELSE ds[h]]]

\* Mutant of register_open_at: the collision check is missing.
register_open_at_nocheck(ds, nh, dk, plug, kind, uri, flags, at) ==
    LET pd == plugin_open(kind, uri, flags, dk)
    IN  IF ~pd.ok THEN [ok |-> FALSE, err |-> pd.err]
        ELSE Registered(ds, nh, NewDesc(nh, kind, plug, uri, flags, pd, at))

\* register_open_at: at exactly `at`, AddressesOverlapError on a collision
register_open_at(ds, nh, dk, plug, kind, uri, flags, at) ==
    LET pd == plugin_open(kind, uri, flags, dk)
    IN  IF ~pd.ok THEN [ok |-> FALSE, err |-> pd.err]
        ELSE IF \E h \in DOMAIN ds : Intersects(ds[h], at, pd.size)
        THEN [ok |-> FALSE, err |-> "AddressesOverlapError"]
        ELSE Registered(ds, nh, NewDesc(nh, kind, plug, uri, flags, pd, at))

\* register_open_default: at the address the plugin names (its raddr)
register_open_default(ds, nh, dk, plug, kind, uri, flags) ==
    LET pd == plugin_open(kind, uri, flags, dk)
    IN  IF ~pd.ok THEN [ok |-> FALSE, err |-> pd.err]
        ELSE register_open_at(ds, nh, dk, plug, kind, uri, flags, pd.raddr)

\* the scan of the sorted intervals for the first gap that fits, from lo
RECURSIVE first_gap(_, _, _, _)
first_gap(ds, order, lo, n) ==
    IF order = <<>> THEN lo
    ELSE LET d == ds[Head(order)]
         IN  IF lo + n <= d.paddr THEN lo
             ELSE first_gap(ds, Tail(order), d.paddr + d.size, n)

\* register_open: at the lowest gap that fits
register_open(ds, nh, dk, plug, kind, uri, flags) ==
    LET pd == plugin_open(kind, uri, flags, dk)
    IN  IF ~pd.ok THEN [ok |-> FALSE, err |-> pd.err]
        ELSE Registered(ds, nh,
                NewDesc(nh, kind, plug, uri, flags, pd,
                        first_gap(ds, ByPaddr(ds, DOMAIN ds), 0, pd.size)))

\* ------------------------------------------------------------------------
\* The facade.

\* Mutant of first_accepting: the last plugin that accepts wins.
RECURSIVE last_accepting(_, _, _)
last_accepting(ps, uri, i) ==
    IF i > Len(ps) THEN 0
    ELSE LET later == last_accepting(ps, uri, i + 1)
         IN  IF later # 0 THEN later
             ELSE IF accept_uri(ps[i], uri) THEN i ELSE 0

\* `for plugin in &mut self.plugins { if plugin.accept_uri(uri) { ... } }`:
\* the index of the first plugin from i on that accepts, 0 when none does
RECURSIVE first_accepting(_, _, _)
first_accepting(ps, uri, i) ==
    IF i > Len(ps) THEN 0
    ELSE IF accept_uri(ps[i], uri) THEN i
    ELSE first_accepting(ps, uri, i + 1)

\* RIO::open
open(ps, ds, nh, dk, uri, flags) ==
    LET i == first_accepting(ps, uri, 1)
    IN  IF i = 0 THEN [ok |-> FALSE, err |-> "IoPluginNotFoundError"]
        ELSE LET r == register_open_default(ds, nh, dk, i, ps[i], uri, flags)
             IN  IF r.ok THEN r
                 ELSE register_open(ds, nh, dk, i, ps[i], uri, flags)

\* Mutant of open_at: `at` is dropped, the lowest gap is taken.
open_at_lowest(ps, ds, nh, dk, uri, flags, at) ==
    LET i == first_accepting(ps, uri, 1)
    IN  IF i = 0 THEN [ok |-> FALSE, err |-> "IoPluginNotFoundError"]
        ELSE register_open(ds, nh, dk, i, ps[i], uri, flags)

\* RIO::open_at
open_at(ps, ds, nh, dk, uri, flags, at) ==
    LET i == first_accepting(ps, uri, 1)
    IN  IF i = 0 THEN [ok |-> FALSE, err |-> "IoPluginNotFoundError"]
        ELSE register_open_at(ds, nh, dk, i, ps[i], uri, flags, at)

\* Mutant of pread_loop: `start += size` is missing.
RECURSIVE pread_loop_fixed_start(_, _, _, _, _)
pread_loop_fixed_start(ds, operations, start, buf, calls) ==
    IF operations = <<>> THEN [res |-> "Ok", buf |-> buf, calls |-> calls]
    ELSE LET op == Head(operations)
             r == desc_read(ds[op.hndl], op.paddr, op.size)
             issued == Append(calls, op)
         IN  IF ~r.ok THEN [res |-> r.err, buf |-> buf, calls |-> issued]
             ELSE pread_loop_fixed_start(ds, Tail(operations), start,
                     [i \in 1..Len(buf) |->
                         IF start < i /\ i <= start + op.size
                         THEN r.data[i - start] ELSE buf[i]],
                     issued)

\* RIO::pread: the loop over the fragments
RECURSIVE pread_loop(_, _, _, _, _)
pread_loop(ds, operations, start, buf, calls) ==
    IF operations = <<>> THEN [res |-> "Ok", buf |-> buf, calls |-> calls]
    ELSE LET op == Head(operations)
             r == desc_read(ds[op.hndl], op.paddr, op.size)
             issued == Append(calls, op)
         IN  IF ~r.ok THEN [res |-> r.err, buf |-> buf, calls |-> issued]
             ELSE pread_loop(ds, Tail(operations), start + op.size,
                     [i \in 1..Len(buf) |->
                         IF start < i /\ i <= start + op.size
                         THEN r.data[i - start] ELSE buf[i]],
                     issued)

\* the longest prefix of [paddr, paddr+n) that descriptors cover
RECURSIVE CoveredPrefix(_, _, _)
CoveredPrefix(ds, paddr, n) ==
    IF n = 0 \/ \A h \in DOMAIN ds : ~Covers(ds[h], paddr) THEN 0
    ELSE 1 + CoveredPrefix(ds, paddr + 1, n - 1)

\* Mutant of pread: no validation first, the fragments are read until a byte
\* is in no descriptor.
pread_no_validation(ds, paddr, buf) ==
    LET n == CoveredPrefix(ds, paddr, Len(buf))
        r == pread_loop(ds, paddr_range_to_hndl(ds, paddr, n), 0, buf, <<>>)
    IN  IF n = Len(buf) \/ r.res # "Ok" THEN r
        ELSE [r EXCEPT !.res = "AddressNotFound"]

pread(ds, paddr, buf) ==
    LET result == paddr_range_to_hndl(ds, paddr, Len(buf))
    IN  IF result # None THEN pread_loop(ds, result, 0, buf, <<>>)
        ELSE [res |-> "AddressNotFound", buf |-> buf, calls |-> <<>>]

\* Mutant of pwrite_loop: every fragment is handed the head of buf.
RECURSIVE pwrite_loop_head(_, _, _, _, _, _)
pwrite_loop_head(ds, dk, operations, start, buf, calls) ==
    IF operations = <<>>
    THEN [res |-> "Ok", descs |-> ds, disk |-> dk, calls |-> calls]
    ELSE LET op == Head(operations)
             r == desc_write(ds[op.hndl], op.paddr, SubSeq(buf, 1, op.size), dk)
             issued == Append(calls, op)
             ds1 == [ds EXCEPT ![op.hndl].bytes = r.bytes]
         IN  IF ~r.ok
             THEN [res |-> r.err, descs |-> ds1, disk |-> r.disk, calls |-> issued]
             ELSE pwrite_loop_head(ds1, r.disk, Tail(operations), start + op.size,
                                   buf, issued)

\* RIO::pwrite: the loop over the fragments
RECURSIVE pwrite_loop(_, _, _, _, _, _)
pwrite_loop(ds, dk, operations, start, buf, calls) ==
    IF operations = <<>>
    THEN [res |-> "Ok", descs |-> ds, disk |-> dk, calls |-> calls]
    ELSE LET op == Head(operations)
             r == desc_write(ds[op.hndl], op.paddr,
                             SubSeq(buf, start + 1, start + op.size), dk)
             issued == Append(calls, op)
             ds1 == [ds EXCEPT ![op.hndl].bytes = r.bytes]
         IN  IF ~r.ok
             THEN [res |-> r.err, descs |-> ds1, disk |-> r.disk, calls |-> issued]
             ELSE pwrite_loop(ds1, r.disk, Tail(operations), start + op.size,
                              buf, issued)

\* Mutant of pwrite: no validation first, the fragments are written until a
\* byte is in no descriptor.
pwrite_no_validation(ds, dk, paddr, buf) ==
    LET n == CoveredPrefix(ds, paddr, Len(buf))
        r == pwrite_loop(ds, dk, paddr_range_to_hndl(ds, paddr, n), 0, buf, <<>>)
    IN  IF n = Len(buf) \/ r.res # "Ok" THEN r
        ELSE [r EXCEPT !.res = "AddressNotFound"]

pwrite(ds, dk, paddr, buf) ==
    LET result == paddr_range_to_hndl(ds, paddr, Len(buf))
    IN  IF result # None THEN pwrite_loop(ds, dk, result, 0, buf, <<>>)
        ELSE [res |-> "AddressNotFound", descs |-> ds, disk |-> dk, calls |-> <<>>]

\* ------------------------------------------------------------------------
\* The state machine.

\* the descriptors, handle counter, maps and files as a call finds them
Pre == [descs |-> descs, next_hndl |-> next_hndl, maps |-> maps, disk |-> disk,
        returned |-> returned]

\* the record of a call: what was called with which arguments, what it found
\* (pre), what it returned, and the fragments it handed to plugins
NoCall == [op |-> "new", args |-> <<>>, res |-> "Ok", hndl |-> None,
           buf |-> <<>>, calls |-> <<>>, pre |-> Pre]

\* BKTree::new: no root; no key inserted
NoTree == [root |-> <<>>, inserted |-> <<>>]

\* Core::new: physical mode at location 0
NewCore == [mode |-> "Phy", loc |-> 0]

\* no write is in progress: wfile says whether save_ihex holds the file it
\* opened for writing
Idle == [pc |-> "idle", hndl |-> 0, wfile |-> FALSE]

Init ==
    /\ plugins = load_plugins
    /\ descs = <<>>
    /\ next_hndl = 0
    /\ maps = {}
    /\ disk = InitDisk
    /\ nwrites = 0
    /\ returned = {}
    /\ last = NoCall
    /\ tree = NoTree
    /\ core = NewCore
    /\ flush = Idle

LoadPlugin(kind) ==
    /\ Len(plugins) < MaxPlugins
    /\ plugins' = Append(plugins, kind)
    /\ last' = [NoCall EXCEPT !.op = "load_plugin", !.args = <<kind>>]
    /\ UNCHANGED <<descs, next_hndl, maps, disk, nwrites, returned, tree, core, flush>>

Opened(op, args, r) ==
    /\ descs' = IF r.ok THEN r.descs ELSE descs
    /\ next_hndl' = IF r.ok THEN r.next_hndl ELSE next_hndl
    /\ last' = [NoCall EXCEPT !.op = op, !.args = args,
                              !.res = IF r.ok THEN "Ok" ELSE r.err,
                              !.hndl = IF r.ok THEN r.hndl ELSE None]
    /\ returned' = IF r.ok THEN returned \cup {r.hndl} ELSE returned
    /\ UNCHANGED <<plugins, maps, disk, nwrites, tree, core, flush>>

Open(uri, flags) ==
    /\ Opened("open", <<uri, flags>>, open(plugins, descs, next_hndl, disk, uri, flags))

OpenAt(uri, flags, at) ==
    /\ Opened("open_at", <<uri, flags, at>>,
              open_at(plugins, descs, next_hndl, disk, uri, flags, at))

\* RIODescQuery::close: the descriptor leaves the index, the others stay as
\* they are; HndlNotFoundError for a handle that is not live
descs_close(ds, hndl) ==
    IF hndl \in DOMAIN ds
    THEN [ok |-> TRUE, descs |-> [h \in DOMAIN ds \ {hndl} |-> ds[h]]]
    ELSE [ok |-> FALSE, err |-> "HndlNotFoundError", descs |-> ds]

\* Mutant of close: the descriptors above the closed one move down into the gap.
close_compacting(ds, ms, hndl) ==
    LET r == descs_close(ds, hndl)
    IN  IF ~r.ok THEN [ok |-> FALSE, err |-> r.err, descs |-> ds, maps |-> ms]
        ELSE [ok |-> TRUE, maps |-> ms,
              descs |-> [h \in DOMAIN r.descs |->
                            IF r.descs[h].paddr > ds[hndl].paddr
                            THEN [r.descs[h] EXCEPT !.paddr = @ - ds[hndl].size]
                            ELSE r.descs[h]]]

\* Mutant of close: the maps into the closed descriptor's interval are deleted.
close_unmapping(ds, ms, hndl) ==
    LET r == descs_close(ds, hndl)
    IN  IF ~r.ok THEN [ok |-> FALSE, err |-> r.err, descs |-> ds, maps |-> ms]
        ELSE [ok |-> TRUE, descs |-> r.descs,
              maps |-> {m \in ms : ~Intersects(ds[hndl], m.paddr, m.size)}]

\* RIO::close: the descriptor index alone is touched
close(ds, ms, hndl) ==
    LET r == descs_close(ds, hndl)
    IN  IF ~r.ok THEN [ok |-> FALSE, err |-> r.err, descs |-> ds, maps |-> ms]
        ELSE [ok |-> TRUE, descs |-> r.descs, maps |-> ms]

Close(hndl) ==
    LET r == close(descs, maps, hndl)
    IN  /\ descs' = r.descs
        /\ maps' = r.maps
        /\ last' = [NoCall EXCEPT !.op = "close", !.args = <<hndl>>,
                      !.res = IF r.ok THEN "Ok" ELSE r.err]
        /\ UNCHANGED <<plugins, next_hndl, disk, nwrites, returned, tree, core, flush>>

\* Mutant of close_all: the map index is kept.
close_all_keeps_maps(ds, ms) == [descs |-> <<>>, next_hndl |-> 0, maps |-> ms]

\* RIO::close_all: a new map index and a new descriptor index
close_all(ds, ms) == [descs |-> <<>>, next_hndl |-> 0, maps |-> {}]

CloseAll ==
    LET r == close_all(descs, maps)
    IN  /\ maps' = r.maps
        /\ descs' = r.descs
        /\ next_hndl' = r.next_hndl
        /\ last' = [NoCall EXCEPT !.op = "close_all"]
        /\ UNCHANGED <<plugins, disk, nwrites, returned, tree, core, flush>>

Pread(paddr, buf) ==
    LET r == pread(descs, paddr, buf)
    IN  /\ last' = [NoCall EXCEPT !.op = "pread", !.args = <<paddr, buf>>,
                      !.res = r.res, !.buf = r.buf, !.calls = r.calls]
        /\ UNCHANGED <<plugins, descs, next_hndl, maps, disk, nwrites, returned, tree, core, flush>>

Pwrite(paddr, buf) ==
    LET r == pwrite(descs, disk, paddr, buf)
    IN  /\ nwrites < MaxWrites
        /\ nwrites' = nwrites + 1
        /\ descs' = r.descs
        /\ disk' = r.disk
        /\ last' = [NoCall EXCEPT !.op = "pwrite", !.args = <<paddr, buf>>,
                      !.res = r.res, !.calls = r.calls]
        /\ UNCHANGED <<plugins, next_hndl, maps, returned, tree, core, flush>>

\* RIOMapQuery::map: AddressesOverlapError when the virtual range meets a
\* stored one
maps_map(ms, paddr, vaddr, n) ==
    IF \E m \in ms : vaddr < m.vaddr + m.size /\ m.vaddr < vaddr + n
    THEN [ok |-> FALSE, err |-> "AddressesOverlapError", maps |-> ms]
    ELSE [ok |-> TRUE,
          maps |-> ms \cup {[paddr |-> paddr, vaddr |-> vaddr, size |-> n]}]

\* Mutant of map: the virtual collision is looked for first.
map_overlap_first(ds, ms, paddr, vaddr, n) ==
    LET r == maps_map(ms, paddr, vaddr, n)
    IN  IF ~r.ok THEN r
        ELSE IF paddr_range_to_hndl(ds, paddr, n) = None
        THEN [ok |-> FALSE, err |-> "AddressNotFound", maps |-> ms]
        ELSE r

\* Mutant of map: the entry is stored whatever the index holds.
map_unchecked(ds, ms, paddr, vaddr, n) ==
    IF paddr_range_to_hndl(ds, paddr, n) = None
    THEN [ok |-> FALSE, err |-> "AddressNotFound", maps |-> ms]
    ELSE [ok |-> TRUE,
          maps |-> ms \cup {[paddr |-> paddr, vaddr |-> vaddr, size |-> n]}]

\* RIO::map
map(ds, ms, paddr, vaddr, n) ==
    IF paddr_range_to_hndl(ds, paddr, n) = None
    THEN [ok |-> FALSE, err |-> "AddressNotFound", maps |-> ms]
    ELSE maps_map(ms, paddr, vaddr, n)

Map(paddr, vaddr, n) ==
    LET r == map(descs, maps, paddr, vaddr, n)
    IN  /\ maps' = r.maps
        /\ last' = [NoCall EXCEPT !.op = "map", !.args = <<paddr, vaddr, n>>,
                      !.res = IF r.ok THEN "Ok" ELSE r.err]
        /\ UNCHANGED <<plugins, descs, next_hndl, disk, nwrites, returned, tree, core, flush>>

\* ------------------------------------------------------------------------
\* The map index (RIOMapQuery) and the virtual address space.

MapEntry(paddr, vaddr, n) == [paddr |-> paddr, vaddr |-> vaddr, size |-> n]

\* the stored entries in ascending vaddr
RECURSIVE ByVaddr(_)
ByVaddr(ms) ==
    IF ms = {} THEN <<>>
    ELSE LET m == CHOOSE x \in ms : \A y \in ms : x.vaddr <= y.vaddr
         IN  <<m>> \o ByVaddr(ms \ {m})

\* RIOMapQuery::split_vaddr_range: the slices of stored entries that tile
\* [vaddr, vaddr+n) in ascending order, None when a byte of it is unmapped
RECURSIVE split_vaddr_range(_, _, _)
split_vaddr_range(ms, vaddr, n) ==
    IF n = 0 THEN <<>>
    ELSE IF \A m \in ms : ~(m.vaddr <= vaddr /\ vaddr < m.vaddr + m.size) THEN None
    ELSE LET m == CHOOSE x \in ms : x.vaddr <= vaddr /\ vaddr < x.vaddr + x.size
             k == IF vaddr + n <= m.vaddr + m.size THEN n
                  ELSE m.vaddr + m.size - vaddr
             rest == split_vaddr_range(ms, vaddr + k, n - k)
         IN  IF rest = None THEN None
             ELSE <<MapEntry(m.paddr + (vaddr - m.vaddr), vaddr, k)>> \o rest

\* what is left of entry m once [vaddr, vaddr+n) is cut out of it
Residuals(m, vaddr, n) ==
    (IF m.vaddr < vaddr
     THEN {MapEntry(m.paddr, m.vaddr, vaddr - m.vaddr)} ELSE {})
    \cup
    (IF vaddr + n < m.vaddr + m.size
     THEN {MapEntry(m.paddr + (vaddr + n - m.vaddr), vaddr + n,
                    m.vaddr + m.size - (vaddr + n))}
     ELSE {})

\* RIOMapQuery::unmap: all or nothing
maps_unmap(ms, vaddr, n) ==
    IF split_vaddr_range(ms, vaddr, n) = None
    THEN [ok |-> FALSE, err |-> "AddressNotFound", maps |-> ms]
    ELSE LET hit == {m \in ms : vaddr < m.vaddr + m.size /\ m.vaddr < vaddr + n}
         IN  [ok |-> TRUE,
              maps |-> (ms \ hit) \cup UNION {Residuals(m, vaddr, n) : m \in hit}]

\* RIOMapQuery::rev_query: the virtual addresses of paddr, ascending
rev_query(ms, paddr) ==
    SortedKeys({m.vaddr + (paddr - m.paddr) :
                    m \in {x \in ms : x.paddr <= paddr /\ paddr < x.paddr + x.size}})

\* Mutant of unmap: the residual after the cut keeps the entry's paddr.
unmap_unshifted(ms, vaddr, n) ==
    LET r == maps_unmap(ms, vaddr, n)
    IN  IF ~r.ok THEN r
        ELSE [r EXCEPT !.maps =
                {IF \E o \in ms : o.vaddr < m.vaddr /\ m.vaddr < o.vaddr + o.size
                 THEN [m EXCEPT !.paddr =
                         (CHOOSE o \in ms : o.vaddr < m.vaddr /\ m.vaddr < o.vaddr + o.size).paddr]
                 ELSE m : m \in r.maps}]

\* Mutant of unmap: what is mapped of the range is removed before the error.
unmap_partial(ms, vaddr, n) ==
    LET hit == {m \in ms : vaddr < m.vaddr + m.size /\ m.vaddr < vaddr + n}
        cut == (ms \ hit) \cup UNION {Residuals(m, vaddr, n) : m \in hit}
    IN  IF split_vaddr_range(ms, vaddr, n) = None
        THEN [ok |-> FALSE, err |-> "AddressNotFound", maps |-> cut]
        ELSE [ok |-> TRUE, maps |-> cut]

\* RIO::unmap
unmap(ms, vaddr, n) == maps_unmap(ms, vaddr, n)

\* Mutant of vir_to_phy: a slice keeps the paddr of the entry it is cut from.
RECURSIVE vir_to_phy_unshifted(_, _, _)
vir_to_phy_unshifted(ms, vaddr, n) ==
    IF n = 0 THEN <<>>
    ELSE IF \A m \in ms : ~(m.vaddr <= vaddr /\ vaddr < m.vaddr + m.size) THEN None
    ELSE LET m == CHOOSE x \in ms : x.vaddr <= vaddr /\ vaddr < x.vaddr + x.size
             k == IF vaddr + n <= m.vaddr + m.size THEN n
                  ELSE m.vaddr + m.size - vaddr
             rest == vir_to_phy_unshifted(ms, vaddr + k, n - k)
         IN  IF rest = None THEN None
             ELSE <<MapEntry(m.paddr, vaddr, k)>> \o rest

\* RIO::vir_to_phy
vir_to_phy(ms, vaddr, n) == split_vaddr_range(ms, vaddr, n)

\* Mutant of phy_to_vir: the start of each covering entry is returned, not
\* the address phy translates to.
phy_to_vir_unshifted(ms, phy) ==
    SortedKeys({m.vaddr : m \in {x \in ms : x.paddr <= phy /\ phy < x.paddr + x.size}})

\* RIO::phy_to_vir
phy_to_vir(ms, phy) == rev_query(ms, phy)

\* RIO::map_iter
map_iter(ms) == ByVaddr(ms)

\* Mutant of uri_iter: the descriptors come in ascending handle.
uri_iter_by_hndl(ds) == SortedKeys(DOMAIN ds)

\* RIO::uri_iter: the handles of the descriptors as the iterator yields them
uri_iter(ds) == ByPaddr(ds, DOMAIN ds)

\* RIO::hndl_to_desc
hndl_to_desc(ds, hndl) == IF hndl \in DOMAIN ds THEN ds[hndl] ELSE None

\* RIO::vread: the loop over the slices, one pread each
RECURSIVE vread_loop(_, _, _, _, _)
vread_loop(ds, ms, start, buf, calls) ==
    IF ms = <<>> THEN [res |-> "Ok", buf |-> buf, calls |-> calls]
    ELSE LET m == Head(ms)
             r == pread(ds, m.paddr, SubSeq(buf, start + 1, start + m.size))
             filled == [i \in 1..Len(buf) |->
                          IF start < i /\ i <= start + m.size
                          THEN r.buf[i - start] ELSE buf[i]]
         IN  IF r.res # "Ok"
             THEN [res |-> r.res, buf |-> filled, calls |-> calls \o r.calls]
             ELSE vread_loop(ds, Tail(ms), start + m.size, filled, calls \o r.calls)

\* RIO::vread
vread(ds, ms, vaddr, buf) ==
    LET result == split_vaddr_range(ms, vaddr, Len(buf))
    IN  IF result # None THEN vread_loop(ds, result, 0, buf, <<>>)
        ELSE [res |-> "AddressNotFound", buf |-> buf, calls |-> <<>>]

Unmap(vaddr, n) ==
    LET r == unmap(maps, vaddr, n)
    IN  /\ maps' = r.maps
        /\ last' = [NoCall EXCEPT !.op = "unmap", !.args = <<vaddr, n>>,
                      !.res = IF r.ok THEN "Ok" ELSE r.err]
        /\ UNCHANGED <<plugins, descs, next_hndl, disk, nwrites, returned, tree, core, flush>>

Vread(vaddr, buf) ==
    LET r == vread(descs, maps, vaddr, buf)
    IN  /\ last' = [NoCall EXCEPT !.op = "vread", !.args = <<vaddr, buf>>,
                      !.res = r.res, !.buf = r.buf, !.calls = r.calls]
        /\ UNCHANGED <<plugins, descs, next_hndl, maps, disk, nwrites, returned, tree, core, flush>>

\* a query that changes nothing: its result is recorded in last.buf
VirToPhy(vaddr, n) ==
    /\ last' = [NoCall EXCEPT !.op = "vir_to_phy", !.args = <<vaddr, n>>,
                  !.buf = vir_to_phy(maps, vaddr, n)]
    /\ UNCHANGED <<plugins, descs, next_hndl, maps, disk, nwrites, returned, tree, core, flush>>

\* Mutant of vwrite_loop: every slice is handed the head of buf.
RECURSIVE vwrite_loop_head(_, _, _, _, _, _)
vwrite_loop_head(ds, dk, ms, start, buf, calls) ==
    IF ms = <<>>
    THEN [res |-> "Ok", descs |-> ds, disk |-> dk, calls |-> calls]
    ELSE LET m == Head(ms)
             r == pwrite(ds, dk, m.paddr, SubSeq(buf, 1, m.size))
         IN  IF r.res # "Ok"
             THEN [res |-> r.res, descs |-> r.descs, disk |-> r.disk,
                   calls |-> calls \o r.calls]
             ELSE vwrite_loop_head(r.descs, r.disk, Tail(ms), start + m.size,
                                   buf, calls \o r.calls)

\* RIO::vwrite: the loop over the slices, one pwrite each
RECURSIVE vwrite_loop(_, _, _, _, _, _)
vwrite_loop(ds, dk, ms, start, buf, calls) ==
    IF ms = <<>>
    THEN [res |-> "Ok", descs |-> ds, disk |-> dk, calls |-> calls]
    ELSE LET m == Head(ms)
             r == pwrite(ds, dk, m.paddr, SubSeq(buf, start + 1, start + m.size))
         IN  IF r.res # "Ok"
             THEN [res |-> r.res, descs |-> r.descs, disk |-> r.disk,
                   calls |-> calls \o r.calls]
             ELSE vwrite_loop(r.descs, r.disk, Tail(ms), start + m.size,
                              buf, calls \o r.calls)

\* the longest prefix of [vaddr, vaddr+n) that maps cover
RECURSIVE MappedPrefix(_, _, _)
MappedPrefix(ms, vaddr, n) ==
    IF n = 0 \/ \A m \in ms : ~(m.vaddr <= vaddr /\ vaddr < m.vaddr + m.size) THEN 0
    ELSE 1 + MappedPrefix(ms, vaddr + 1, n - 1)

\* Mutant of vwrite: no validation first, the slices are written until a
\* byte is unmapped.
vwrite_no_validation(ds, dk, ms, vaddr, buf) ==
    LET n == MappedPrefix(ms, vaddr, Len(buf))
        r == vwrite_loop(ds, dk, split_vaddr_range(ms, vaddr, n), 0, buf, <<>>)
    IN  IF n = Len(buf) \/ r.res # "Ok" THEN r
        ELSE [r EXCEPT !.res = "AddressNotFound"]

\* RIO::vwrite
vwrite(ds, dk, ms, vaddr, buf) ==
    LET result == split_vaddr_range(ms, vaddr, Len(buf))
    IN  IF result # None THEN vwrite_loop(ds, dk, result, 0, buf, <<>>)
        ELSE [res |-> "AddressNotFound", descs |-> ds, disk |-> dk, calls |-> <<>>]

Vwrite(vaddr, buf) ==
    LET r == vwrite(descs, disk, maps, vaddr, buf)
    IN  /\ nwrites < MaxVwrites
        /\ nwrites' = nwrites + 1
        /\ descs' = r.descs
        /\ disk' = r.disk
        /\ last' = [NoCall EXCEPT !.op = "vwrite", !.args = <<vaddr, buf>>,
                      !.res = r.res, !.calls = r.calls]
        /\ UNCHANGED <<plugins, next_hndl, maps, returned, tree, core, flush>>

\* RIODescQuery::paddr_sparce_range_to_hndl: the fragments (hndl, paddr,
\* size) of the covered parts of [paddr, paddr+n) in ascending order; the
\* bytes in no descriptor are left out
RECURSIVE paddr_sparce_range_to_hndl(_, _, _)
paddr_sparce_range_to_hndl(ds, paddr, n) ==
    IF n = 0 THEN <<>>
    ELSE IF \A h \in DOMAIN ds : ~Covers(ds[h], paddr)
    THEN paddr_sparce_range_to_hndl(ds, paddr + 1, n - 1)
    ELSE LET h == CHOOSE x \in DOMAIN ds : Covers(ds[x], paddr)
             m == IF n < ds[h].paddr + ds[h].size - paddr
                  THEN n ELSE ds[h].paddr + ds[h].size - paddr
         IN  <<[hndl |-> h, paddr |-> paddr, size |-> m]>>
             \o paddr_sparce_range_to_hndl(ds, paddr + m, n - m)

\* Mutant of pread_sparce_loop: the bytes are keyed from 0, not from the
\* fragment's physical address.
RECURSIVE pread_sparce_loop_relative(_, _, _)
pread_sparce_loop_relative(ds, ranges, result) ==
    IF ranges = <<>> THEN [res |-> "Ok", bytes |-> result]
    ELSE LET op == Head(ranges)
             r == desc_read(ds[op.hndl], op.paddr, op.size)
         IN  IF ~r.ok THEN [res |-> r.err, bytes |-> EmptyBytes]
             ELSE pread_sparce_loop_relative(ds, Tail(ranges),
                                             InsertAll(result, 0, r.data))

\* RIO::pread_sparce: the loop over the fragments
RECURSIVE pread_sparce_loop(_, _, _)
pread_sparce_loop(ds, ranges, result) ==
    IF ranges = <<>> THEN [res |-> "Ok", bytes |-> result]
    ELSE LET op == Head(ranges)
             r == desc_read(ds[op.hndl], op.paddr, op.size)
         IN  IF ~r.ok THEN [res |-> r.err, bytes |-> EmptyBytes]
             ELSE pread_sparce_loop(ds, Tail(ranges),
                                    InsertAll(result, op.paddr, r.data))

\* RIO::pread_sparce
pread_sparce(ds, paddr, n) ==
    pread_sparce_loop(ds, paddr_sparce_range_to_hndl(ds, paddr, n), EmptyBytes)

\* RIOMapQuery::split_vaddr_sparce_range: the slices of stored entries
\* inside [vaddr, vaddr+n) in ascending order; unmapped bytes are left out
RECURSIVE split_vaddr_sparce_range(_, _, _)
split_vaddr_sparce_range(ms, vaddr, n) ==
    IF n = 0 THEN <<>>
    ELSE IF \A m \in ms : ~(m.vaddr <= vaddr /\ vaddr < m.vaddr + m.size)
    THEN split_vaddr_sparce_range(ms, vaddr + 1, n - 1)
    ELSE LET m == CHOOSE x \in ms : x.vaddr <= vaddr /\ vaddr < x.vaddr + x.size
             k == IF vaddr + n <= m.vaddr + m.size THEN n
                  ELSE m.vaddr + m.size - vaddr
         IN  <<MapEntry(m.paddr + (vaddr - m.vaddr), vaddr, k)>>
             \o split_vaddr_sparce_range(ms, vaddr + k, n - k)

\* Mutant of vread_sparce_loop: the bytes are keyed by physical address.
RECURSIVE vread_sparce_loop_phys(_, _, _)
vread_sparce_loop_phys(ds, ms, result) ==
    IF ms = <<>> THEN [res |-> "Ok", bytes |-> result]
    ELSE LET m == Head(ms)
             r == pread(ds, m.paddr, [i \in 1..m.size |-> 0])
         IN  IF r.res # "Ok" THEN [res |-> r.res, bytes |-> EmptyBytes]
             ELSE vread_sparce_loop_phys(ds, Tail(ms),
                                         InsertAll(result, m.paddr, r.buf))

\* Mutant of vread_sparce_loop: a slice whose pread fails is left out.
RECURSIVE vread_sparce_loop_skipping(_, _, _)
vread_sparce_loop_skipping(ds, ms, result) ==
    IF ms = <<>> THEN [res |-> "Ok", bytes |-> result]
    ELSE LET m == Head(ms)
             r == pread(ds, m.paddr, [i \in 1..m.size |-> 0])
         IN  IF r.res # "Ok" THEN vread_sparce_loop_skipping(ds, Tail(ms), result)
             ELSE vread_sparce_loop_skipping(ds, Tail(ms),
                                             InsertAll(result, m.vaddr, r.buf))

\* RIO::vread_sparce: the loop over the slices, one pread each
RECURSIVE vread_sparce_loop(_, _, _)
vread_sparce_loop(ds, ms, result) ==
    IF ms = <<>> THEN [res |-> "Ok", bytes |-> result]
    ELSE LET m == Head(ms)
             r == pread(ds, m.paddr, [i \in 1..m.size |-> 0])
         IN  IF r.res # "Ok" THEN [res |-> r.res, bytes |-> EmptyBytes]
             ELSE vread_sparce_loop(ds, Tail(ms),
                                    InsertAll(result, m.vaddr, r.buf))

\* RIO::vread_sparce
vread_sparce(ds, ms, vaddr, n) ==
    vread_sparce_loop(ds, split_vaddr_sparce_range(ms, vaddr, n), EmptyBytes)

\* the reads and queries change nothing: the sparse result is recorded in
\* last.buf
PreadSparce(paddr, n) ==
    LET r == pread_sparce(descs, paddr, n)
    IN  /\ last' = [NoCall EXCEPT !.op = "pread_sparce", !.args = <<paddr, n>>,
                      !.res = r.res, !.buf = r.bytes]
        /\ UNCHANGED <<plugins, descs, next_hndl, maps, disk, nwrites, returned, tree, core, flush>>

VreadSparce(vaddr, n) ==
    LET r == vread_sparce(descs, maps, vaddr, n)
    IN  /\ last' = [NoCall EXCEPT !.op = "vread_sparce", !.args = <<vaddr, n>>,
                      !.res = r.res, !.buf = r.bytes]
        /\ UNCHANGED <<plugins, descs, next_hndl, maps, disk, nwrites, returned, tree, core, flush>>

PhyToVir(phy) ==
    /\ last' = [NoCall EXCEPT !.op = "phy_to_vir", !.args = <<phy>>,
                  !.buf = phy_to_vir(maps, phy)]
    /\ UNCHANGED <<plugins, descs, next_hndl, maps, disk, nwrites, returned, tree, core, flush>>

\* ------------------------------------------------------------------------
\* Serialization (serde) of RIO.

\* Mutant of serialize: the map index is not written.
serialize_without_maps(ds, nh, ms) ==
    [descs |-> [h \in DOMAIN ds |->
                   [hndl |-> ds[h].hndl, name |-> ds[h].name, perm |-> ds[h].perm,
                    paddr |-> ds[h].paddr, size |-> ds[h].size]],
     next_hndl |-> nh,
     maps |-> {}]

\* Serialize for RIO: descs and maps are written, plugins are skipped; of a
\* descriptor its handle, uri, permission, paddr and size are written, what
\* its plugin holds in memory is not
serialize(ds, nh, ms) ==
    [descs |-> [h \in DOMAIN ds |->
                   [hndl |-> ds[h].hndl, name |-> ds[h].name, perm |-> ds[h].perm,
                    paddr |-> ds[h].paddr, size |-> ds[h].size]],
     next_hndl |-> nh,
     maps |-> ms]

\* Display for IoError::IoPluginNotFoundError
PluginNotFoundText == "Can not find Suitable IO Plugin"

\* Display for the Custom error of a plugin: its text, and the line number
\* where it names one
fmt_custom(e) ==
    IF Len(e) = 3 THEN e[2] \o ": " \o ToString(e[3]) ELSE e[2]

\* de::Error::custom(msg): the serde error that carries the text
de_custom(msg) == "de::Error: " \o msg

\* RIODesc::reopen: the plugin opens the descriptor's uri with its
\* permission; handle, paddr and size stay as they were persisted
reopen(d, plug, kind, dk) ==
    LET pd == plugin_open(kind, d.name, d.perm, dk)
    IN  IF ~pd.ok THEN pd
        ELSE [ok |-> TRUE,
              desc |-> [hndl |-> d.hndl, name |-> d.name, perm |-> d.perm,
                        paddr |-> d.paddr, size |-> d.size, raddr |-> pd.raddr,
                        kind |-> kind, plug |-> plug, bytes |-> pd.bytes,
                        ssa |-> pd.ssa, sla |-> pd.sla, file |-> File]]

\* Mutant of deserialize_loop: a descriptor that cannot be reopened is left
\* out and the others are returned.
RECURSIVE deserialize_loop_skipping(_, _, _, _, _)
deserialize_loop_skipping(ps, ds, order, dk, done) ==
    IF order = <<>> THEN [ok |-> TRUE, descs |-> done]
    ELSE LET d == ds[Head(order)]
             i == first_accepting(ps, d.name, 1)
             r == reopen(d, i, ps[i], dk)
         IN  IF i = 0 \/ ~r.ok
             THEN deserialize_loop_skipping(ps, ds, Tail(order), dk, done)
             ELSE deserialize_loop_skipping(ps, ds, Tail(order), dk,
                     [h \in DOMAIN done \cup {d.hndl} |->
                         IF h = d.hndl THEN r.desc ELSE done[h]])

\* Deserialize for RIO: `for desc in &mut io.descs`, each reopened by the
\* first plugin that accepts its uri
RECURSIVE deserialize_loop(_, _, _, _, _)
deserialize_loop(ps, ds, order, dk, done) ==
    IF order = <<>> THEN [ok |-> TRUE, descs |-> done]
    ELSE LET d == ds[Head(order)]
             i == first_accepting(ps, d.name, 1)
             r == reopen(d, i, ps[i], dk)
         IN  IF i = 0 THEN [ok |-> FALSE, err |-> de_custom(PluginNotFoundText)]
             ELSE IF ~r.ok THEN [ok |-> FALSE, err |-> de_custom(fmt_custom(r.err))]
             ELSE deserialize_loop(ps, ds, Tail(order), dk,
                     [h \in DOMAIN done \cup {d.hndl} |->
                         IF h = d.hndl THEN r.desc ELSE done[h]])

\* Deserialize for RIO: the document's descs and maps, the plugins of
\* load_plugins, every descriptor reopened
deserialize(doc, dk) ==
    LET r == deserialize_loop(load_plugins, doc.descs,
                              ByPaddr(doc.descs, DOMAIN doc.descs), dk, <<>>)
    IN  IF ~r.ok THEN r
        ELSE [ok |-> TRUE,
              io |-> [plugins |-> load_plugins, descs |-> r.descs,
                      next_hndl |-> doc.next_hndl, maps |-> doc.maps]]

\* serde_json::from_str(&serde_json::to_string(&io)): the caller goes on with
\* the RIO it got, if it got one (recorded in last.buf)
SerDe ==
    LET r == deserialize(serialize(descs, next_hndl, maps), disk)
    IN  /\ plugins' = IF r.ok THEN r.io.plugins ELSE plugins
        /\ descs' = IF r.ok THEN r.io.descs ELSE descs
        /\ next_hndl' = IF r.ok THEN r.io.next_hndl ELSE next_hndl
        /\ maps' = IF r.ok THEN r.io.maps ELSE maps
        /\ last' = [NoCall EXCEPT !.op = "deserialize",
                      !.res = IF r.ok THEN "Ok" ELSE r.err,
                      !.buf = IF r.ok THEN <<r.io>> ELSE <<>>]
        /\ UNCHANGED <<disk, nwrites, returned, tree, core, flush>>

\* Another program cuts the last record off the HEX file.
FileTruncated ==
    /\ Len(disk["h"]) > 1
    /\ disk' = [disk EXCEPT !["h"] = SubSeq(@, 1, Len(@) - 1)]
    /\ last' = [NoCall EXCEPT !.op = "truncated"]
    /\ UNCHANGED <<plugins, descs, next_hndl, maps, nwrites, returned, tree, core, flush>>

\* the buffers a caller hands to pread: n bytes that no file holds
ReadBuf(n) == [i \in 1..n |-> 170]

ReadBufs == {ReadBuf(n) : n \in 1..MaxLen}

\* the buffers a caller hands to pwrite: 8, 9, 8, ... of each length
WriteBufs == {[i \in 1..n |-> IF i % 2 = 1 THEN 8 ELSE 9] : n \in 1..MaxLen}

\* Reads and writes over descriptors opened with every permission set.
Next ==
    \/ /\ next_hndl < MaxOpen
       /\ \E uri \in URIs, flags \in Perms : Open(uri, flags)
    \/ \E hndl \in 0..MaxOpen : Close(hndl)
    \/ \E paddr \in 0..MaxAddr, buf \in ReadBufs : Pread(paddr, buf)
    \/ \E paddr \in 0..MaxAddr, buf \in WriteBufs : Pwrite(paddr, buf)

Spec == Init /\ [][Next]_vars

\* Placement: every way to open and close, read-only.
NextAlloc ==
    \/ \E kind \in PluginKinds : LoadPlugin(kind)
    \/ /\ next_hndl < MaxHndl
       /\ \E uri \in URIs : Open(uri, {"READ"})
    \/ /\ next_hndl < MaxHndl
       /\ \E uri \in URIs, at \in 0..MaxAddr : OpenAt(uri, {"READ"}, at)
    \/ \E hndl \in 0..MaxHndl : Close(hndl)
    \/ CloseAll
    \/ \E paddr \in 0..MaxMap, vaddr \in 0..MaxMap, n \in 1..MaxMap :
            Map(paddr, vaddr, n)

SpecAlloc == Init /\ [][NextAlloc]_vars

\* The map index: maps made and cut over raw descriptors that come and go.
NextMap ==
    \/ /\ next_hndl < MaxOpen
       /\ Open(Uri("", "a"), {"READ"})
    \/ \E hndl \in 0..MaxOpen : Close(hndl)
    \/ CloseAll
    \/ /\ Cardinality(maps) < MaxMaps
       /\ \E paddr \in 0..MaxMapAddr, vaddr \in 0..MaxVaddr, n \in 1..MaxMapLen :
            Map(paddr, vaddr, n)
    \/ \E vaddr \in 0..MaxVaddr, n \in 1..MaxLen : Unmap(vaddr, n)
    \/ \E vaddr \in 0..MaxVaddr, n \in 1..MaxLen : VirToPhy(vaddr, n)
    \/ \E vaddr \in 0..MaxVaddr, buf \in ReadBufs : Vread(vaddr, buf)
    \/ \E phy \in 0..(MaxMapAddr + MaxMapLen) : PhyToVir(phy)

SpecMap == Init /\ [][NextMap]_vars

\* The virtual address space over writable raw descriptors: aliasing maps,
\* strict and sparse reads, one virtual write.
NextVirt ==
    \/ /\ next_hndl < MaxOpen
       /\ Open(Uri("", "a"), {"READ", "WRITE"})
    \/ \E hndl \in 0..MaxOpen : Close(hndl)
    \/ /\ Cardinality(maps) < MaxMaps
       /\ \E paddr \in 0..MaxMapAddr, vaddr \in 0..MaxVaddr, n \in 1..MaxVirtLen :
            Map(paddr, vaddr, n)
    \/ \E vaddr \in 0..MaxVaddr, buf \in ReadBufs : Vread(vaddr, buf)
    \/ \E vaddr \in 0..MaxVaddr, buf \in WriteBufs : Vwrite(vaddr, buf)
    \/ \E vaddr \in 0..MaxVaddr, n \in 1..MaxLen : VreadSparce(vaddr, n)

SpecVirt == Init /\ [][NextVirt]_vars

\* Sparse physical reads over raw and HEX descriptors placed anywhere.
NextSparse ==
    \/ /\ next_hndl < MaxOpen
       /\ \E uri \in URIs, at \in 0..MaxAddr : OpenAt(uri, {"READ"}, at)
    \/ \E hndl \in 0..MaxOpen : Close(hndl)
    \/ \E paddr \in 0..MaxAddr, n \in 1..MaxLen : PreadSparce(paddr, n)

SpecSparse == Init /\ [][NextSparse]_vars

\* Serialization: descriptors of the built-in plugins and of a plugin the
\* caller loaded, copy-on-write bytes, maps, a HEX file cut short on disk.
NextSerde ==
    \/ LoadPlugin(ExtPlugin)
    \/ /\ next_hndl < MaxOpen
       /\ \E uri \in URIs, flags \in {{"READ"}, {"READ", "COW"}} : Open(uri, flags)
    \/ \E hndl \in 0..MaxOpen : Close(hndl)
    \/ /\ Cardinality(maps) < MaxMap
       /\ \E paddr \in 0..MaxVaddr, vaddr \in 0..MaxMap, n \in 1..MaxMap :
            Map(paddr, vaddr, n)
    \/ \E paddr \in 0..MaxMapAddr : Pwrite(paddr, <<8>>)
    \/ FileTruncated
    \/ SerDe

SpecSerde == Init /\ [][NextSerde]_vars

\* ------------------------------------------------------------------------
\* Intel HEX files to open: every stream of up to MaxRecs records over a
\* few records of each type, some with the checksum their bytes add up to
\* and some with another one, one of a type that does not exist and one
\* whose byte count is not the number of its bytes.

RecAlphabet ==
    {Rec(0, 1, 1, <<31>>, 223), Rec(0, 2, 0, <<40, 41>>, 0),
     Rec(2, 2, 0, <<0, 1>>, 251), Rec(4, 2, 0, <<0, 1>>, 17),
     Rec(3, 4, 0, <<0, 0, 0, 7>>, 242), Rec(3, 4, 0, <<0, 0, 1, 0>>, 0),
     Rec(5, 4, 0, <<0, 0, 0, 9>>, 238),
     Rec(1, 0, 0, <<>>, 255),
     Rec(6, 0, 0, <<>>, 250), Rec(0, 2, 0, <<1>>, 253)}

Streams == UNION {[1..n -> RecAlphabet] : n \in 0..MaxRecs}

InitIHex ==
    /\ plugins = load_plugins
    /\ descs = <<>>
    /\ next_hndl = 0
    /\ maps = {}
    /\ disk \in {[InitDisk EXCEPT !["h"] = s] : s \in Streams}
    /\ nwrites = 0
    /\ returned = {}
    /\ last = NoCall
    /\ tree = NoTree
    /\ core = NewCore
    /\ flush = Idle

NextIHex ==
    \/ /\ next_hndl < MaxOpen
       /\ descs = <<>>
       /\ Open(Uri("ihex", "h"), {"READ"})
    \/ \E hndl \in 0..MaxOpen : Close(hndl)

SpecIHex == InitIHex /\ [][NextIHex]_vars

\* ------------------------------------------------------------------------
\* ------------------------------------------------------------------------
\* Intel HEX files to open for writing: every stream of up to MaxSeedRecs
\* records over a few legal ones, closed by an EOF record.  The records give
\* a full 16-byte line followed by its 17th byte, a byte after a hole, bases
\* above 0xffff (type 02) and above 0xfffff (type 04), start addresses, and
\* bytes whose sums with the record's other fields are multiples of 256.

SeedAlphabet ==
    {Rec(0, 16, 3, [i \in 1..16 |-> i], 101), Rec(0, 1, 16, <<17>>, 222),
     Rec(0, 1, 0, <<240>>, 15), Rec(0, 1, 3, <<33>>, 219),
     Rec(4, 2, 0, <<0, 16>>, 234), Rec(2, 2, 0, <<16, 0>>, 236),
     Rec(3, 4, 0, <<0, 0, 0, 249>>, 0), Rec(5, 4, 0, <<0, 0, 0, 9>>, 238)}

Seeds ==
    {s \o <<Rec(1, 0, 0, <<>>, 255)>> :
        s \in UNION {[1..n -> SeedAlphabet] : n \in 0..MaxSeedRecs}}

HexBufs == WriteBufs \cup {<<240>>}

\* RIODesc.plugin_operations.read on an Intel HEX descriptor
PluginRead(hndl, raddr, n) ==
    /\ hndl \in DOMAIN descs
    /\ descs[hndl].kind = "ihex"
    /\ LET r == ihex_read(descs[hndl], raddr, n)
       IN  last' = [NoCall EXCEPT !.op = "plugin_read", !.args = <<hndl, raddr, n>>,
                      !.res = "Ok", !.hndl = hndl, !.buf = r.data]
    /\ UNCHANGED <<plugins, descs, next_hndl, maps, disk, nwrites, returned, tree, core, flush>>

\* RIODesc.plugin_operations.write on an Intel HEX descriptor
PluginWrite(hndl, raddr, buffer) ==
    /\ hndl \in DOMAIN descs
    /\ descs[hndl].kind = "ihex"
    /\ nwrites < MaxWrites
    /\ LET r == ihex_write(descs[hndl], raddr, buffer, disk)
       IN  /\ descs' = [descs EXCEPT ![hndl].bytes = r.bytes]
           /\ disk' = r.disk
           /\ last' = [NoCall EXCEPT !.op = "plugin_write",
                         !.args = <<hndl, raddr, buffer>>,
                         !.res = IF r.ok THEN "Ok" ELSE r.err, !.hndl = hndl]
    /\ nwrites' = nwrites + 1
    /\ UNCHANGED <<plugins, next_hndl, maps, returned, tree, core, flush>>

InitHex ==
    /\ plugins = load_plugins
    /\ descs = <<>>
    /\ next_hndl = 0
    /\ maps = {}
    /\ disk \in {[InitDisk EXCEPT !["h"] = s] : s \in Seeds}
    /\ nwrites = 0
    /\ returned = {}
    /\ last = NoCall
    /\ tree = NoTree
    /\ core = NewCore
    /\ flush = Idle

NextHex ==
    \/ /\ next_hndl < MaxOpen
       /\ descs = <<>>
       /\ \E flags \in {{"READ", "WRITE"}, {"READ", "COW"}} : Open(Uri("ihex", "h"), flags)
    \/ \E hndl \in 0..MaxOpen : Close(hndl)
    \/ \E hndl \in 0..MaxOpen, raddr \in 0..MaxVaddr, buffer \in HexBufs :
         PluginWrite(hndl, raddr, buffer)

SpecHex == InitHex /\ [][NextHex]_vars

\* the same files opened for reading, and read through the plugin at
\* addresses inside and outside the occupied keys
NextHexRead ==
    \/ /\ next_hndl < MaxOpen
       /\ descs = <<>>
       /\ Open(Uri("ihex", "h"), {"READ"})
    \/ \E hndl \in 0..MaxOpen : Close(hndl)
    \/ \E hndl \in 0..MaxOpen, raddr \in 0..MaxAddr, n \in 1..MaxLen :
         PluginRead(hndl, raddr, n)

SpecHexRead == InitHex /\ [][NextHexRead]_vars

\* ------------------------------------------------------------------------
\* The BK-tree of the spell suggester (trees/src/bktree/tree.rs).  A key is
\* a word, a sequence of letters; a node is [key, value, children], children
\* a function from a distance to the child node at that distance.

Alphabet == {"a", "b", "c"}

\* the keys inserted and searched: the words of 2..MaxWord distinct letters
Words ==
    {w \in UNION {[1..n -> Alphabet] : n \in 2..MaxWord} :
        \A i, j \in DOMAIN w : i # j => w[i] # w[j]}

min(x, y) == IF x <= y THEN x ELSE y

\* d[i][j] of osa_distance
RECURSIVE osa_d(_, _, _, _)
osa_d(a, b, i, j) ==
    IF i = 0 THEN j
    ELSE IF j = 0 THEN i
    ELSE LET cost == IF a[i] # b[j] THEN 1 ELSE 0
             m == min(osa_d(a, b, i - 1, j) + 1,
                      min(osa_d(a, b, i, j - 1) + 1,
                          osa_d(a, b, i - 1, j - 1) + cost))
         IN  IF i > 1 /\ j > 1 /\ a[i] = b[j - 1] /\ a[i - 1] = b[j]
             THEN min(m, osa_d(a, b, i - 2, j - 2) + cost)
             ELSE m

\* optimal string alignment distance
osa_distance(str1, str2) ==
    IF str1 = str2 THEN 0 ELSE osa_d(str1, str2, Len(str1), Len(str2))

BKTreeNode_new(key, value) == [key |-> key, value |-> value, children |-> <<>>]

RECURSIVE BKTreeNode_insert(_, _, _)
BKTreeNode_insert(node, key, value) ==
    LET distance == osa_distance(node.key, key)
    IN  IF distance \in DOMAIN node.children
        THEN [node EXCEPT !.children[distance] = BKTreeNode_insert(@, key, value)]
        ELSE [node EXCEPT !.children = (distance :> BKTreeNode_new(key, value)) @@ @]

\* BKTreeNode::find: the node itself, then the children at the distances
\* current_distance - tolerance ..= current_distance + tolerance, in
\* ascending order; find_children is the for loop from i on
RECURSIVE BKTreeNode_find(_, _, _)
RECURSIVE find_children(_, _, _, _, _, _)
find_children(node, key, tolerance, i, hi, acc) ==
    IF i > hi THEN acc
    ELSE IF i \in DOMAIN node.children
         THEN LET result == BKTreeNode_find(node.children[i], key, tolerance)
              IN  find_children(node, key, tolerance, i + 1, hi,
                                [exact |-> acc.exact \o result.exact,
                                 close |-> acc.close \o result.close])
         ELSE find_children(node, key, tolerance, i + 1, hi, acc)

BKTreeNode_find(node, key, tolerance) ==
    LET current_distance == osa_distance(node.key, key)
        own == [exact |-> IF current_distance = 0 THEN <<node.value>> ELSE <<>>,
                close |-> IF current_distance # 0 /\ current_distance <= tolerance
                          THEN <<node.key>> ELSE <<>>]
        \* saturating_sub
        lo == IF current_distance > tolerance THEN current_distance - tolerance ELSE 0
    IN  find_children(node, key, tolerance, lo, current_distance + tolerance, own)

BKTree_insert(root, key, value) ==
    IF root # <<>> THEN <<BKTreeNode_insert(root[1], key, value)>>
    ELSE <<BKTreeNode_new(key, value)>>

BKTree_find(root, key, tolerance) ==
    IF root # <<>> THEN BKTreeNode_find(root[1], key, tolerance)
    ELSE [exact |-> <<>>, close |-> <<>>]

\* tree.insert(key, value): the value is the number of the insertion
Insert(key) ==
    /\ Len(tree.inserted) < MaxKeys
    /\ tree' = [root |-> BKTree_insert(tree.root, key, Len(tree.inserted) + 1),
                inserted |-> Append(tree.inserted, key)]
    /\ last' = [NoCall EXCEPT !.op = "insert", !.args = <<key>>]
    /\ UNCHANGED <<plugins, descs, next_hndl, maps, disk, nwrites, returned, core, flush>>

\* tree.find(key, tolerance)
Find(key, tolerance) ==
    /\ LET r == BKTree_find(tree.root, key, tolerance)
       IN  last' = [NoCall EXCEPT !.op = "find", !.args = <<key, tolerance>>,
                      !.buf = <<r.exact, r.close>>]
    /\ UNCHANGED <<plugins, descs, next_hndl, maps, disk, nwrites, returned,
                   tree, core, flush>>

NextTree ==
    \/ \E key \in Words : Insert(key)
    \/ \E key \in Words, tolerance \in 0..MaxTolerance : Find(key, tolerance)

SpecTree == Init /\ [][NextTree]_vars

\* ------------------------------------------------------------------------
\* The address mode of the core (core/src/loc/mode.rs).

\* Mutant of mode_run: `mode vir` moves to the highest alias.
mode_run_highest(c, ms, args) ==
    IF Len(args) # 1 THEN c
    ELSE IF args[1] = "vir"
    THEN LET vir == phy_to_vir(ms, c.loc)
         IN  [mode |-> "Vir",
              loc |-> IF c.mode = "Phy" /\ vir # <<>> THEN vir[Len(vir)] ELSE c.loc]
    ELSE IF args[1] = "phy"
    THEN LET vir == vir_to_phy(ms, c.loc, 1)
         IN  [mode |-> "Phy",
              loc |-> IF c.mode = "Vir" /\ ~(vir = None) THEN vir[1].paddr ELSE c.loc]
    ELSE c

\* Mode::run: the core after the command; a wrong number of arguments or an
\* unknown mode prints an error and changes nothing
mode_run(c, ms, args) ==
    IF Len(args) # 1 THEN c
    ELSE IF args[1] = "vir"
    THEN LET vir == phy_to_vir(ms, c.loc)
         IN  [mode |-> "Vir",
              loc |-> IF c.mode = "Phy" /\ vir # <<>> THEN vir[1] ELSE c.loc]
    ELSE IF args[1] = "phy"
    THEN LET vir == vir_to_phy(ms, c.loc, 1)
         IN  [mode |-> "Phy",
              loc |-> IF c.mode = "Vir" /\ ~(vir = None) THEN vir[1].paddr ELSE c.loc]
    ELSE c

ModeArgs == {<<>>, <<"vir">>, <<"phy">>, <<"v">>}

\* mode.run(&mut core, args).  The call record keeps the core as it was
\* before the command and, when the call before it was a mode command too,
\* that command and the core before it.
ModeRun(args) ==
    /\ core' = mode_run(core, maps, args)
    /\ last' = [NoCall EXCEPT !.op = "mode", !.args = <<args>>, !.buf = <<core>>,
                  !.calls = IF last.op = "mode"
                            THEN <<[args |-> last.args[1], core |-> last.buf[1]]>>
                            ELSE <<>>]
    /\ UNCHANGED <<plugins, descs, next_hndl, maps, disk, nwrites, returned, tree, flush>>

\* core.set_loc(loc)
SetLoc(loc) ==
    /\ core' = [core EXCEPT !.loc = loc]
    /\ last' = [NoCall EXCEPT !.op = "set_loc", !.args = <<loc>>]
    /\ UNCHANGED <<plugins, descs, next_hndl, maps, disk, nwrites, returned, tree, flush>>

NextMode ==
    \/ /\ next_hndl < MaxOpen
       /\ Open(Uri("", "a"), {"READ"})
    \/ /\ Cardinality(maps) < MaxMaps
       /\ \E paddr \in 0..MaxMapAddr, vaddr \in 0..MaxLoc, n \in 1..MaxVirtLen :
            Map(paddr, vaddr, n)
    \/ \E loc \in 0..MaxLoc : SetLoc(loc)
    \/ \E args \in ModeArgs : ModeRun(args)

SpecMode == Init /\ [][NextMode]_vars

\* ------------------------------------------------------------------------
\* FileInternals::write step by step: the flush of a descriptor opened with
\* WRITE, with the file system calls that can fail.  flush.pc is the next
\* statement of the write in progress, flush.wfile whether the File that
\* save_ihex opened is live; the call record keeps res = "Running" until the
\* write returns.

\* Mutant of release: the plugin keeps its handle while the file is rewritten.
release_keep(d) == d

\* self.file = Box::new(Dummy {}): the handle on the raw file is dropped
release(d) == [d EXCEPT !.file = Dummy]

\* self.file = def_desc.plugin_operations: the new handle is kept
acquire(d) == [d EXCEPT !.file = File]

\* Mutant of write_failed: the bytes of the failed write are taken back.
write_failed_rollback(d, before) == [d EXCEPT !.bytes = before.bytes]

\* save_ihex()? and plug.open(..)?: the error is returned, the descriptor
\* is left as it is
write_failed(d, before) == d

\* the write returns res
Return(res) ==
    /\ flush' = Idle
    /\ last' = [last EXCEPT !.res = res]

\* the write returns the error of a file system call
Fail ==
    /\ Return(IoFailed)
    /\ descs' = [descs EXCEPT ![flush.hndl] =
                    write_failed(@, last.pre.descs[flush.hndl])]

\* write(raddr, buffer) up to the flush: the permission check and the
\* insertion of the bytes
WriteBegin(hndl, raddr, buffer) ==
    /\ flush.pc = "idle"
    /\ hndl \in DOMAIN descs
    /\ descs[hndl].kind = "ihex"
    /\ nwrites < MaxFlushes
    /\ nwrites' = nwrites + 1
    /\ LET d == descs[hndl]
           denied == "COW" \notin d.perm /\ "WRITE" \notin d.perm
       IN  /\ descs' = IF denied THEN descs
                       ELSE [descs EXCEPT ![hndl].bytes = InsertAll(@, raddr, buffer)]
           /\ flush' = IF "WRITE" \in d.perm
                       THEN [pc |-> "release", hndl |-> hndl, wfile |-> FALSE]
                       ELSE Idle
           /\ last' = [NoCall EXCEPT !.op = "plugin_write",
                         !.args = <<hndl, raddr, buffer>>, !.hndl = hndl,
                         !.res = IF denied THEN PermissionDenied
                                 ELSE IF "WRITE" \in d.perm THEN "Running" ELSE "Ok"]
    /\ UNCHANGED <<plugins, next_hndl, maps, disk, returned, tree, core>>

\* self.file = Box::new(Dummy {})
FlushRelease ==
    /\ flush.pc = "release"
    /\ descs' = [descs EXCEPT ![flush.hndl] = release(@)]
    /\ flush' = [flush EXCEPT !.pc = "truncate"]
    /\ UNCHANGED <<plugins, next_hndl, maps, disk, last, nwrites, returned, tree, core>>

\* save_ihex: OpenOptions::new().write(true).truncate(true).open(path)?
FlushTruncate(ok) ==
    /\ flush.pc = "truncate"
    /\ IF ok
       THEN /\ disk' = [disk EXCEPT ![descs[flush.hndl].name.path] = <<>>]
            /\ flush' = [flush EXCEPT !.pc = "write_sa", !.wfile = TRUE]
            /\ UNCHANGED <<descs, last>>
       ELSE /\ Fail
            /\ UNCHANGED disk
    /\ UNCHANGED <<plugins, next_hndl, maps, nwrites, returned, tree, core>>

\* save_ihex: self.write_sa(&mut file)?; n of its lines reach the file, the
\* call fails when that is not all of them.  The File is dropped when
\* save_ihex returns.
FlushWriteSa(n) ==
    /\ flush.pc = "write_sa"
    /\ LET d == descs[flush.hndl]
           lines == write_sa(d.ssa, d.sla)
       IN  /\ n \in 0..Len(lines)
           /\ disk' = [disk EXCEPT ![d.name.path] = @ \o SubSeq(lines, 1, n)]
           /\ IF n = Len(lines)
              THEN /\ flush' = [flush EXCEPT !.pc = "write_data"]
                   /\ UNCHANGED <<descs, last>>
              ELSE Fail
    /\ UNCHANGED <<plugins, next_hndl, maps, nwrites, returned, tree, core>>

\* save_ihex: self.write_data(&mut file)?
FlushWriteData(n) ==
    /\ flush.pc = "write_data"
    /\ LET d == descs[flush.hndl]
           lines == write_data(d.bytes)
       IN  /\ n \in 0..Len(lines)
           /\ disk' = [disk EXCEPT ![d.name.path] = @ \o SubSeq(lines, 1, n)]
           /\ IF n = Len(lines)
              THEN /\ flush' = [flush EXCEPT !.pc = "eof"]
                   /\ UNCHANGED <<descs, last>>
              ELSE Fail
    /\ UNCHANGED <<plugins, next_hndl, maps, nwrites, returned, tree, core>>

\* save_ihex: writeln!(file, ":00000001FF")?; Ok(())
FlushEof(ok) ==
    /\ flush.pc = "eof"
    /\ IF ok
       THEN /\ disk' = [disk EXCEPT ![descs[flush.hndl].name.path] =
                           @ \o <<Rec(1, 0, 0, <<>>, 255)>>]
            /\ flush' = [flush EXCEPT !.pc = "open", !.wfile = FALSE]
            /\ UNCHANGED <<descs, last>>
       ELSE /\ Fail
            /\ UNCHANGED disk
    /\ UNCHANGED <<plugins, next_hndl, maps, nwrites, returned, tree, core>>

\* plug.open(path, IoMode::READ)?; self.file = def_desc.plugin_operations
FlushOpen(ok) ==
    /\ flush.pc = "open"
    /\ IF ok
       THEN /\ descs' = [descs EXCEPT ![flush.hndl] = acquire(@)]
            /\ Return("Ok")
       ELSE Fail
    /\ UNCHANGED <<plugins, next_hndl, maps, disk, nwrites, returned, tree, core>>

NextFlush ==
    \/ /\ descs = <<>>
       /\ flush.pc = "idle"
       /\ \E flags \in {{"READ", "WRITE"}, {"READ", "COW"}, {"READ"}} :
            Open(Uri("ihex", "h"), flags)
    \/ \E hndl \in 0..MaxOpen, raddr \in 0..MaxVaddr, buffer \in HexBufs :
         WriteBegin(hndl, raddr, buffer)
    \/ FlushRelease
    \/ \E ok \in BOOLEAN : FlushTruncate(ok)
    \/ /\ flush.pc = "write_sa"
       /\ \E n \in 0..Len(write_sa(descs[flush.hndl].ssa, descs[flush.hndl].sla)) :
            FlushWriteSa(n)
    \/ /\ flush.pc = "write_data"
       /\ \E n \in 0..Len(write_data(descs[flush.hndl].bytes)) : FlushWriteData(n)
    \/ \E ok \in BOOLEAN : FlushEof(ok)
    \/ \E ok \in BOOLEAN : FlushOpen(ok)

SpecFlush == InitHex /\ [][NextFlush]_vars

\* What the claims speak of.

\* every physical address a descriptor of the model can cover
Addrs == 0..(2 * MaxAddr + MaxLen)

CoveredBy(ds, a) == \E h \in DOMAIN ds : Covers(ds[h], a)

RangeOf(paddr, n) == paddr..(paddr + n - 1)

\* the byte stored at physical address a (None where no descriptor is)
PhysByte(ds, a) ==
    IF ~CoveredBy(ds, a) THEN None
    ELSE LET d == ds[CHOOSE h \in DOMAIN ds : Covers(ds[h], a)]
             key == a - d.paddr + d.raddr
         IN  IF key \in DOMAIN d.bytes THEN d.bytes[key] ELSE 0

Writable(d) == "WRITE" \in d.perm \/ "COW" \in d.perm

\* in a pwrite that returned `res` after the plugin calls `calls`: the calls
\* that succeeded
Done(res, calls) ==
    IF res = "Ok" \/ calls = <<>> THEN calls ELSE SubSeq(calls, 1, Len(calls) - 1)

InFrag(c, a) == c.paddr <= a /\ a < c.paddr + c.size

\* C1: pread succeeds iff every address of [paddr, paddr+n) lies in a live
\* descriptor's interval; otherwise it returns AddressNotFound, issues no plugin
\* read and leaves buf as it was.
C1_PreadAllOrNothing ==
    last.op = "pread" =>
        LET paddr == last.args[1]
            buf == last.args[2]
            covered == \A a \in RangeOf(paddr, Len(buf)) : CoveredBy(descs, a)
        IN  /\ (last.res = "Ok") <=> covered
            /\ ~covered => /\ last.res = "AddressNotFound"
                            /\ last.calls = <<>>
                            /\ last.buf = buf

\* a pread that failed over a range whose first byte is covered
C1_Witness ==
    /\ last.op = "pread" /\ last.res = "AddressNotFound"
    /\ CoveredBy(descs, last.args[1])

\* C2: a successful pread(p, buf) of length n sets buf[i] to the byte stored at
\* physical address p+i; its fragments are in ascending physical order, do not
\* overlap, and their lengths sum to n.
C2_PreadBytes ==
    (last.op = "pread" /\ last.res = "Ok") =>
        LET paddr == last.args[1]
            n == Len(last.args[2])
            c == last.calls
        IN  /\ Len(last.buf) = n
            /\ \A i \in 1..n : last.buf[i] = PhysByte(descs, paddr + i - 1)
            /\ c # <<>> /\ c[1].paddr = paddr
            /\ \A j \in 1..Len(c) : c[j].size >= 1
            /\ \A j \in 1..(Len(c) - 1) : c[j + 1].paddr = c[j].paddr + c[j].size
            /\ c[Len(c)].paddr + c[Len(c)].size = paddr + n

\* a successful pread over two descriptors
C2_Witness ==
    /\ last.op = "pread" /\ last.res = "Ok"
    /\ Len(last.calls) >= 2
    /\ last.calls[1].hndl # last.calls[2].hndl

RWCovered(ds, paddr, n) ==
    \A a \in RangeOf(paddr, n) :
        \E h \in DOMAIN ds : Covers(ds[h], a) /\ {"READ", "WRITE"} \subseteq ds[h].perm

\* C3: over a range fully covered by descriptors opened with READ and WRITE,
\* pwrite(p, B) followed by pread(p, out), len(out) = len(B), yields out = B,
\* and the bytes outside [p, p+len(B)) read as before the pwrite.
C3_WriteReadRoundTrip ==
    LET paddr == last.args[1]
        B == last.args[2]
    IN  (last.op = "pwrite" /\ RWCovered(last.pre.descs, paddr, Len(B))) =>
            LET out == pread(descs, paddr, ReadBuf(Len(B)))
            IN  /\ last.res = "Ok"
                /\ out.res = "Ok" /\ out.buf = B
                /\ \A a \in Addrs \ RangeOf(paddr, Len(B)) :
                       PhysByte(descs, a) = PhysByte(last.pre.descs, a)

\* a successful pwrite over two descriptors opened with READ and WRITE
C3_Witness ==
    /\ last.op = "pwrite" /\ last.res = "Ok"
    /\ Len(last.calls) >= 2
    /\ \A j \in 1..Len(last.calls) :
           {"READ", "WRITE"} \subseteq descs[last.calls[j].hndl].perm

C5_WriteDenied ==
    last.op = "pwrite" =>
        LET c == last.calls
        IN  \A j \in 1..Len(c) :
              ~Writable(last.pre.descs[c[j].hndl]) =>
                  /\ last.res = PermissionDenied
                  /\ j = Len(c)
                  /\ descs[c[j].hndl] = last.pre.descs[c[j].hndl]
                  /\ j = 1 => (descs = last.pre.descs /\ disk = last.pre.disk)

\* a pwrite an Intel HEX descriptor opened with READ alone has refused
C5_Witness ==
    /\ last.op = "pwrite" /\ last.res = PermissionDenied
    /\ Len(last.calls) = 1
    /\ descs[last.calls[1].hndl].kind = "ihex"
    /\ descs[last.calls[1].hndl].perm = {"READ"}

\* the successful writes of a pwrite to Intel HEX descriptors holding WRITE
Flushes(ds, done) ==
    {j \in 1..Len(done) :
        ds[done[j].hndl].kind = "ihex" /\ "WRITE" \in ds[done[j].hndl].perm}

\* C6: a successful write to an Intel HEX descriptor changes its sparse map
\* (reads return the written bytes); the file is rewritten exactly when WRITE
\* is in the permission set, so never for COW without WRITE, and also for COW
\* with WRITE.
C6_CopyOnWrite ==
    last.op = "pwrite" =>
        LET paddr == last.args[1]
            B == last.args[2]
            done == Done(last.res, last.calls)
            W == Flushes(descs, done)
        IN  /\ \A j \in 1..Len(done) :
                 descs[done[j].hndl].kind = "ihex" =>
                   \A a \in Addrs : InFrag(done[j], a) =>
                      PhysByte(descs, a) = B[a - paddr + 1]
            /\ disk["h"] =
                 IF W = {} THEN last.pre.disk["h"]
                 ELSE LET d == descs[done[CHOOSE j \in W : \A k \in W : k <= j].hndl]
                      IN  save_ihex(d.bytes, d.ssa, d.sla)

\* the second of two pwrites, to an Intel HEX descriptor opened with COW and
\* without WRITE, the file still as it was at the start
C6_Witness ==
    /\ last.op = "pwrite" /\ last.res = "Ok" /\ nwrites = 2
    /\ \A j \in 1..Len(last.calls) :
           /\ descs[last.calls[j].hndl].kind = "ihex"
           /\ descs[last.calls[j].hndl].perm = {"READ", "COW"}
           /\ descs[last.calls[j].hndl].bytes # ihex_open(Uri("ihex", "h"), {}, InitDisk).bytes
    /\ disk = InitDisk

\* C7: after any sequence of open, open_at, close and close_all the physical
\* intervals [paddr, paddr+size) of the live descriptors are pairwise disjoint.
C7_IntervalsDisjoint ==
    \A h1 \in DOMAIN descs : \A h2 \in DOMAIN descs :
        h1 # h2 =>
            \/ descs[h1].paddr + descs[h1].size <= descs[h2].paddr
            \/ descs[h2].paddr + descs[h2].size <= descs[h1].paddr

\* an open_at refused for a collision while two descriptors are live
C7_Witness ==
    /\ last.op = "open_at" /\ last.res = "AddressesOverlapError"
    /\ Cardinality(DOMAIN descs) >= 2

Accepting(ps, uri) == {i \in 1..Len(ps) : accept_uri(ps[i], uri)}

\* what the first accepting plugin makes of uri
FirstOpen(ps, uri, flags, dk) ==
    plugin_open(ps[CHOOSE i \in Accepting(ps, uri) : \A k \in Accepting(ps, uri) : i <= k],
                uri, flags, dk)

\* the descriptors of ds are live in ds2 as they were, and hndl is the one more
OneMore(ds, ds2, hndl) ==
    /\ hndl \notin DOMAIN ds
    /\ DOMAIN ds2 = DOMAIN ds \cup {hndl}
    /\ \A h \in DOMAIN ds : ds2[h] = ds[h]

\* the call left descriptors, handle counter and maps as it found them
IndexUnchanged ==
    /\ descs = last.pre.descs
    /\ next_hndl = last.pre.next_hndl
    /\ maps = last.pre.maps

\* C8: open_at(uri, perm, at) places the descriptor at exactly `at`; it fails
\* with AddressesOverlap iff [at, at+size) meets a live descriptor's interval,
\* and then the descriptors, the handle counter and the maps are unchanged.
C8_OpenAt ==
    LET uri == last.args[1]
        at == last.args[3]
    IN  (last.op = "open_at" /\ Accepting(plugins, uri) # {}) =>
          LET pd == FirstOpen(plugins, uri, last.args[2], last.pre.disk)
              overlap == \E a \in RangeOf(at, pd.size) : CoveredBy(last.pre.descs, a)
          IN  /\ (last.res = "AddressesOverlapError") <=> overlap
              /\ overlap => IndexUnchanged
              /\ ~overlap => /\ last.res = "Ok"
                             /\ OneMore(last.pre.descs, descs, last.hndl)
                             /\ descs[last.hndl].paddr = at
                             /\ descs[last.hndl].size = pd.size

\* an open_at placed above a live descriptor, a map being stored
C8_Witness ==
    /\ last.op = "open_at" /\ last.res = "Ok"
    /\ last.args[3] > 0
    /\ descs[last.hndl].paddr = last.args[3]
    /\ Cardinality(DOMAIN descs) >= 2
    /\ maps # {}

\* the lowest base at which n bytes are disjoint from every live interval
LowestFree(ds, n) ==
    CHOOSE b \in Addrs :
        /\ \A a \in RangeOf(b, n) : ~CoveredBy(ds, a)
        /\ \A c \in 0..(b - 1) : \E a \in RangeOf(c, n) : CoveredBy(ds, a)

\* C9: a successful open places the new descriptor at the lowest paddr >= 0 at
\* which [paddr, paddr+size) is disjoint from all live intervals, for any
\* accepting plugin and any current set of descriptors.
C9_OpenLowest ==
    (last.op = "open" /\ last.res = "Ok") =>
        descs[last.hndl].paddr = LowestFree(last.pre.descs, descs[last.hndl].size)

\* C10: open and open_at use the first plugin in registration order whose
\* accept_uri is true and no later one; when none accepts they return
\* IoPluginNotFound and leave descriptors, handle counter and maps unchanged.
C10_FirstPlugin ==
    last.op \in {"open", "open_at"} =>
        LET A == Accepting(plugins, last.args[1])
        IN  IF A = {}
            THEN last.res = "IoPluginNotFoundError" /\ IndexUnchanged
            ELSE /\ last.res # "IoPluginNotFoundError"
                 /\ last.res = "Ok" =>
                      /\ OneMore(last.pre.descs, descs, last.hndl)
                      /\ \A k \in A : descs[last.hndl].plug <= k
                      /\ descs[last.hndl].plug \in A
                 /\ last.res # "Ok" => descs = last.pre.descs

\* an open served while two registered plugins accept the URI
C10_Witness ==
    /\ last.op = "open" /\ last.res = "Ok"
    /\ Cardinality(Accepting(plugins, last.args[1])) >= 2
    /\ descs[last.hndl].plug = 1

\* C11: the handle a successful open or open_at returns differs from every
\* handle an earlier successful open or open_at on the instance returned, also
\* after a close of the earlier handle and after close_all.
C11_HandlesNeverReused ==
    (last.op \in {"open", "open_at"} /\ last.res = "Ok") =>
        last.hndl \notin last.pre.returned

\* C12: close(h) of a live handle removes exactly that descriptor and moves no
\* other: every other live descriptor keeps handle, uri, permission, paddr and
\* size; close of a handle that is not live returns HndlNotFound and changes
\* nothing.
C12_CloseFrame ==
    last.op = "close" =>
        LET h == last.args[1]
        IN  /\ next_hndl = last.pre.next_hndl
            /\ maps = last.pre.maps
            /\ disk = last.pre.disk
            /\ IF h \in DOMAIN last.pre.descs
               THEN /\ last.res = "Ok"
                    /\ DOMAIN descs = DOMAIN last.pre.descs \ {h}
                    /\ \A g \in DOMAIN descs : descs[g] = last.pre.descs[g]
               ELSE /\ last.res = "HndlNotFoundError"
                    /\ descs = last.pre.descs

\* a close of the lower of two live descriptors
C12_Witness ==
    /\ last.op = "close" /\ last.res = "Ok"
    /\ \E g \in DOMAIN descs :
           descs[g].paddr > last.pre.descs[last.args[1]].paddr

\* every virtual address a map entry of the model can cover
Vaddrs == 0..(MaxVaddr + MaxMapLen + MaxLen)

\* the physical addresses virtual address v translates to: none when v is
\* unmapped, one when the virtual intervals are disjoint
Trans(ms, v) ==
    {m.paddr + (v - m.vaddr) : m \in {x \in ms : x.vaddr <= v /\ v < x.vaddr + x.size}}

\* some byte of the entry's physical range lies in no live descriptor
Dangling(ds, m) == \E a \in RangeOf(m.paddr, m.size) : ~CoveredBy(ds, a)

C14_CloseAllEmpties ==
    last.op = "close_all" =>
        /\ uri_iter(descs) = <<>>
        /\ map_iter(maps) = <<>>
        /\ \A h \in 0..(MaxHndl + 1) : hndl_to_desc(descs, h) = None
        /\ \A p \in Addrs : phy_to_vir(maps, p) = <<>>
        /\ \A p \in Addrs : \A buf \in ReadBufs :
               pread(descs, p, buf).res = "AddressNotFound"
        /\ \A v \in Vaddrs : \A buf \in ReadBufs :
               vread(descs, maps, v, buf).res = "AddressNotFound"

\* a close_all that found two descriptors and a map entry
C14_Witness ==
    /\ last.op = "close_all"
    /\ Cardinality(DOMAIN last.pre.descs) >= 2
    /\ last.pre.maps # {}

VMeets(m, vaddr, n) == vaddr < m.vaddr + m.size /\ m.vaddr < vaddr + n

\* C15: map(paddr, vaddr, size) succeeds iff [paddr, paddr+size) is fully
\* covered by live descriptors and [vaddr, vaddr+size) meets no stored virtual
\* interval; AddressNotFound when the physical range is not covered (checked
\* first), AddressesOverlap when only the virtual range collides; a failure
\* leaves the map index unchanged; the same physical range may be mapped at
\* several disjoint virtual ranges.
C15_Map ==
    last.op = "map" =>
        LET paddr == last.args[1]
            vaddr == last.args[2]
            n == last.args[3]
            covered == \A a \in RangeOf(paddr, n) : CoveredBy(descs, a)
            vfree == \A m \in last.pre.maps : ~VMeets(m, vaddr, n)
        IN  /\ (last.res = "Ok") <=> (covered /\ vfree)
            /\ ~covered => last.res = "AddressNotFound"
            /\ (covered /\ ~vfree) => last.res = "AddressesOverlapError"
            /\ last.res # "Ok" => maps = last.pre.maps
            /\ last.res = "Ok" =>
                 maps = last.pre.maps \cup {MapEntry(paddr, vaddr, n)}

\* a second map of the same physical range at another virtual range
C15_Witness ==
    /\ last.op = "map" /\ last.res = "Ok"
    /\ \E m \in last.pre.maps : m.paddr = last.args[1] /\ m.size = last.args[3]

\* C16: the virtual intervals of the stored entries are pairwise disjoint,
\* every entry has size > 0, and map_iter yields every entry once in strictly
\* ascending vaddr, whatever the order of insertion.
C16_MapsDisjointSorted ==
    LET it == map_iter(maps)
    IN  /\ \A m \in maps : m.size > 0
        /\ \A m1 \in maps : \A m2 \in maps :
               m1 # m2 => ~VMeets(m1, m2.vaddr, m2.size)
        /\ Len(it) = Cardinality(maps)
        /\ {it[j] : j \in 1..Len(it)} = maps
        /\ \A j \in 1..(Len(it) - 1) : it[j].vaddr < it[j + 1].vaddr

\* an entry mapped below one that was stored before it
C16_Witness ==
    /\ last.op = "map" /\ last.res = "Ok"
    /\ \E m \in last.pre.maps : m.vaddr > last.args[2]
    /\ Len(map_iter(maps)) >= 2

\* C17: uri_iter yields every live descriptor exactly once, in strictly
\* ascending paddr, whatever the handles and the order of opening.
C17_UriIterSorted ==
    LET it == uri_iter(descs)
    IN  /\ Len(it) = Cardinality(DOMAIN descs)
        /\ {it[j] : j \in 1..Len(it)} = DOMAIN descs
        /\ \A j \in 1..(Len(it) - 1) : descs[it[j]].paddr < descs[it[j + 1]].paddr

\* three live descriptors, the one opened last lying lowest
C17_Witness ==
    /\ last.op \in {"open", "open_at"} /\ last.res = "Ok"
    /\ Cardinality(DOMAIN descs) = 3
    /\ uri_iter(descs)[1] = last.hndl
    /\ \A h \in DOMAIN descs : h <= last.hndl

\* C18: vir_to_phy(v, s) is None iff some byte of [v, v+s) is unmapped;
\* otherwise its entries are in ascending vaddr, contiguous, tile [v, v+s)
\* exactly, and each is a slice of one stored entry M with
\* entry.paddr = M.paddr + (entry.vaddr - M.vaddr).
C18_VirToPhy ==
    last.op = "vir_to_phy" =>
        LET v == last.args[1]
            n == last.args[2]
            r == last.buf
        IN  /\ (r = None) <=> \E x \in RangeOf(v, n) : Trans(maps, x) = {}
            /\ r # None =>
                 /\ r # <<>> /\ r[1].vaddr = v
                 /\ r[Len(r)].vaddr + r[Len(r)].size = v + n
                 /\ \A j \in 1..(Len(r) - 1) : r[j + 1].vaddr = r[j].vaddr + r[j].size
                 /\ \A j \in 1..Len(r) :
                      /\ r[j].size > 0
                      /\ \E M \in maps :
                           /\ M.vaddr <= r[j].vaddr
                           /\ r[j].vaddr + r[j].size <= M.vaddr + M.size
                           /\ r[j].paddr = M.paddr + (r[j].vaddr - M.vaddr)

\* a translation over two entries that starts inside the first
C18_Witness ==
    /\ last.op = "vir_to_phy" /\ last.buf # None
    /\ Len(last.buf) = 2
    /\ \E M \in maps : M.vaddr < last.args[1] /\ last.args[1] < M.vaddr + M.size

\* C19: a successful unmap(vaddr, len) unmaps every byte of [vaddr, vaddr+len)
\* and leaves every virtual byte outside it with the physical translation it
\* had, also when an entry is cut at its start, its end or in its middle.
C19_UnmapExact ==
    (last.op = "unmap" /\ last.res = "Ok") =>
        \A x \in Vaddrs :
            Trans(maps, x) = IF x \in RangeOf(last.args[1], last.args[2])
                             THEN {} ELSE Trans(last.pre.maps, x)

\* an unmap out of the middle of an entry
C19_Witness ==
    /\ last.op = "unmap" /\ last.res = "Ok"
    /\ \E m \in last.pre.maps :
           /\ m.vaddr < last.args[1]
           /\ last.args[1] + last.args[2] < m.vaddr + m.size
    /\ Cardinality(maps) = Cardinality(last.pre.maps) + 1

\* C20: unmap(vaddr, len) over a range with an unmapped byte fails with
\* AddressNotFound and leaves the map index, forward entries and reverse
\* lookups, as it was, also when part of the range was mapped.
C20_UnmapAllOrNothing ==
    (last.op = "unmap"
       /\ \E x \in RangeOf(last.args[1], last.args[2]) : Trans(last.pre.maps, x) = {}) =>
        /\ last.res = "AddressNotFound"
        /\ maps = last.pre.maps
        /\ map_iter(maps) = map_iter(last.pre.maps)
        /\ \A p \in Addrs : phy_to_vir(maps, p) = phy_to_vir(last.pre.maps, p)

\* a refused unmap of a range that was mapped in part
C20_Witness ==
    /\ last.op = "unmap" /\ last.res = "AddressNotFound"
    /\ \E x \in RangeOf(last.args[1], last.args[2]) : Trans(maps, x) # {}

\* the bytes pread returns for each slice, one slice after another
RECURSIVE PreadEach(_, _)
PreadEach(ds, ents) ==
    IF ents = <<>> THEN <<>>
    ELSE pread(ds, Head(ents).paddr, ReadBuf(Head(ents).size)).buf
         \o PreadEach(ds, Tail(ents))

\* the pwrites of the pieces of B over the slices, one after another
RECURSIVE PwriteEach(_, _, _, _)
PwriteEach(ds, dk, ents, B) ==
    IF ents = <<>> THEN [ok |-> TRUE, descs |-> ds, disk |-> dk]
    ELSE LET k == Head(ents).size
             w == pwrite(ds, dk, Head(ents).paddr, SubSeq(B, 1, k))
         IN  IF w.res # "Ok" THEN [ok |-> FALSE, descs |-> w.descs, disk |-> w.disk]
             ELSE PwriteEach(w.descs, w.disk, Tail(ents), SubSeq(B, k + 1, Len(B)))

\* C21: vread and vwrite are pread and pwrite composed through the map index.
\* A successful vread(v, buf) leaves in buf the bytes pread returns for the
\* entries of vir_to_phy(v, len(buf)), in that order; a successful vwrite(v, B)
\* leaves the descriptors and the files as the pwrites of B's pieces over those
\* entries leave them; afterwards every virtual address that translates to a
\* physical byte the write set reads the byte written there last.
C21_VirtualComposition ==
    /\ (last.op = "vread" /\ last.res = "Ok") =>
          LET ents == vir_to_phy(last.pre.maps, last.args[1], Len(last.args[2]))
          IN  /\ ents # None
              /\ \A j \in 1..Len(ents) :
                    pread(descs, ents[j].paddr, ReadBuf(ents[j].size)).res = "Ok"
              /\ last.buf = PreadEach(descs, ents)
    /\ (last.op = "vwrite" /\ last.res = "Ok") =>
          LET v == last.args[1]
              B == last.args[2]
              ents == vir_to_phy(last.pre.maps, v, Len(B))
          IN  /\ ents # None
              /\ LET w == PwriteEach(last.pre.descs, last.pre.disk, ents, B)
                 IN  w.ok /\ descs = w.descs /\ disk = w.disk
              /\ \A i \in 1..Len(B) :
                    (\A j \in (i + 1)..Len(B) :
                        Trans(maps, v + j - 1) # Trans(maps, v + i - 1))
                    => \A x \in Vaddrs :
                          Trans(maps, x) = Trans(maps, v + i - 1)
                          => LET r == vread(descs, maps, x, ReadBuf(1))
                             IN  r.res = "Ok" /\ r.buf = <<B[i]>>

\* a vwrite over two entries, seen through an alias outside the written range
C21_Witness ==
    /\ last.op = "vwrite" /\ last.res = "Ok"
    /\ Len(vir_to_phy(maps, last.args[1], Len(last.args[2]))) = 2
    /\ \E x \in Vaddrs \ RangeOf(last.args[1], Len(last.args[2])) :
          /\ Trans(maps, x) = Trans(maps, last.args[1] + Len(last.args[2]) - 1)
          /\ vread(descs, maps, x, ReadBuf(1)).buf
                = <<last.args[2][Len(last.args[2])]>>
          /\ vread(last.pre.descs, maps, x, ReadBuf(1)).buf
                # <<last.args[2][Len(last.args[2])]>>

\* C22: a vread or vwrite over a range with an unmapped byte, also one whose
\* first bytes are mapped, returns AddressNotFound without handing anything to
\* a descriptor: buf, the descriptors' bytes and the files stay as they were.
C22_VirtualAtomicFailure ==
    (/\ last.op \in {"vread", "vwrite"}
     /\ \E x \in RangeOf(last.args[1], Len(last.args[2])) :
            Trans(last.pre.maps, x) = {})
    => /\ last.res = "AddressNotFound"
       /\ last.calls = <<>>
       /\ descs = last.pre.descs
       /\ disk = last.pre.disk
       /\ last.op = "vread" => last.buf = last.args[2]

\* a vwrite whose first byte is mapped onto a writable descriptor and whose
\* last byte is unmapped
C22_Witness ==
    /\ last.op = "vwrite" /\ last.res = "AddressNotFound"
    /\ Trans(maps, last.args[1] + Len(last.args[2]) - 1) = {}
    /\ \E a \in Trans(maps, last.args[1]) :
          pwrite(descs, disk, a, <<last.args[2][1]>>).res = "Ok"

\* C23: phy_to_vir(p) holds v exactly when a stored entry {p0, v0, s} has
\* p0 <= p < p0 + s and v = v0 + (p - p0); it holds no address twice, is in
\* ascending order, and is empty when no entry covers p.
C23_PhyToVir ==
    last.op = "phy_to_vir" =>
        LET p == last.args[1]
            r == last.buf
        IN  /\ \A i \in 1..Len(r) : r[i] \in Vaddrs
            /\ \A v \in Vaddrs :
                  (\E i \in 1..Len(r) : r[i] = v)
                  <=> \E m \in maps : /\ m.paddr <= p /\ p < m.paddr + m.size
                                      /\ v = m.vaddr + (p - m.paddr)
            /\ \A i, j \in 1..Len(r) : i < j => r[i] < r[j]
            /\ (\A m \in maps : ~(m.paddr <= p /\ p < m.paddr + m.size)) => r = <<>>

\* a physical address inside two entries, at an offset into both
C23_Witness ==
    /\ last.op = "phy_to_vir"
    /\ Len(last.buf) = 2
    /\ \A m \in maps : m.paddr < last.args[1] /\ m.vaddr \notin {last.buf[1], last.buf[2]}

\* C24: pread_sparce(paddr, size) never returns AddressNotFound: it returns
\* the map that holds, for exactly the addresses of [paddr, paddr+size) that
\* lie in a live descriptor, the byte stored at that address; it is empty when
\* no address of the range lies in one.
C24_PreadSparce ==
    last.op = "pread_sparce" =>
        LET covered == {a \in RangeOf(last.args[1], last.args[2]) : CoveredBy(descs, a)}
        IN  /\ last.res # "AddressNotFound"
            /\ last.res = "Ok"
            /\ DOMAIN last.buf = covered
            /\ \A a \in covered : last.buf[a] = PhysByte(descs, a)
            /\ covered = {} => last.buf = EmptyBytes

\* a range that starts in no descriptor and ends in one that was not placed
\* at 0 and whose plugin addresses do not start at 0
C24_Witness ==
    /\ last.op = "pread_sparce" /\ last.res = "Ok"
    /\ ~CoveredBy(descs, last.args[1])
    /\ Cardinality(DOMAIN last.buf) >= 2
    /\ \E h \in DOMAIN descs : /\ Covers(descs[h], MinKey(last.buf))
                               /\ descs[h].raddr # 0
                               /\ descs[h].raddr # descs[h].paddr

\* C25: vread_sparce(vaddr, size) does not fail over unmapped addresses: while
\* every physical byte the range translates to lies in a live descriptor it
\* returns the map that holds, for exactly the mapped addresses v of
\* [vaddr, vaddr+size), the byte at the physical address v translates to.
C25_VreadSparce ==
    last.op = "vread_sparce" =>
        LET range == RangeOf(last.args[1], last.args[2])
            mapped == {v \in range : Trans(maps, v) # {}}
        IN  /\ (\A v \in mapped : \A a \in Trans(maps, v) : CoveredBy(descs, a))
               => last.res = "Ok"
            /\ last.res = "Ok" =>
                  /\ DOMAIN last.buf = mapped
                  /\ \A v \in mapped : \A a \in Trans(maps, v) :
                        last.buf[v] = PhysByte(descs, a)

\* a range with an unmapped address between two mapped ones, whose bytes lie
\* at physical addresses other than their virtual ones
C25_Witness ==
    /\ last.op = "vread_sparce" /\ last.res = "Ok"
    /\ DOMAIN last.buf = {last.args[1], last.args[1] + 2}
    /\ \A v \in DOMAIN last.buf : v \notin Trans(maps, v)
    /\ last.buf[last.args[1]] # last.buf[last.args[1] + 2]

\* the descriptor as its file on disk gives it: what the plugin holds once
\* it has opened the descriptor's uri anew
FromFile(d, dk) ==
    LET pd == plugin_open(d.kind, d.name, d.perm, dk)
    IN  [d EXCEPT !.bytes = pd.bytes, !.raddr = pd.raddr, !.ssa = pd.ssa, !.sla = pd.sla]

\* C26: while the files are as they were when they were opened and a plugin
\* of load_plugins accepts every uri, deserialize(serialize(io)) returns an IO
\* with the same descriptors (handle, uri, permission, paddr, size) and the
\* same map entries, each descriptor opened by the first plugin that accepts
\* its uri: pread and vread return the files' bytes at the addresses they
\* had, and what they returned before wherever the descriptors held the
\* files' bytes.
C26_SerdeRoundTrip ==
    (/\ last.op = "deserialize"
     /\ last.pre.disk = InitDisk
     /\ \A h \in DOMAIN last.pre.descs :
            first_accepting(load_plugins, last.pre.descs[h].name, 1) # 0)
    => LET old == last.pre.descs
           files == [h \in DOMAIN old |-> FromFile(old[h], last.pre.disk)]
       IN  /\ last.res = "Ok"
           /\ last.buf = <<[plugins |-> plugins, descs |-> descs,
                            next_hndl |-> next_hndl, maps |-> maps]>>
           /\ DOMAIN descs = DOMAIN old
           /\ \A h \in DOMAIN old :
                 /\ descs[h].hndl = old[h].hndl
                 /\ descs[h].name = old[h].name
                 /\ descs[h].perm = old[h].perm
                 /\ descs[h].paddr = old[h].paddr
                 /\ descs[h].size = old[h].size
                 /\ descs[h].plug = first_accepting(plugins, old[h].name, 1)
                 /\ descs[h].kind = plugins[descs[h].plug]
           /\ maps = last.pre.maps
           /\ map_iter(maps) = map_iter(last.pre.maps)
           /\ \A a \in Addrs : PhysByte(descs, a) = PhysByte(files, a)
           /\ \A a \in 0..MaxAddr : \A buf \in ReadBufs :
                 /\ pread(descs, a, buf) = pread(files, a, buf)
                 /\ files = old => pread(descs, a, buf) = pread(old, a, buf)
           /\ \A v \in 0..MaxVaddr : \A buf \in ReadBufs :
                 /\ vread(descs, maps, v, buf) = vread(files, last.pre.maps, v, buf)
                 /\ files = old
                    => vread(descs, maps, v, buf) = vread(old, last.pre.maps, v, buf)

\* a round trip of a HEX descriptor that is not where a new open would put
\* it, with a map onto it that reads a byte of the file
C26_Witness ==
    /\ last.op = "deserialize" /\ last.res = "Ok"
    /\ last.pre.disk = InitDisk
    /\ \E h \in DOMAIN descs :
          /\ descs[h].kind = "ihex"
          /\ descs[h].paddr # descs[h].raddr
          /\ descs[h] = last.pre.descs[h]
          /\ \E m \in maps :
                /\ Covers(descs[h], m.paddr)
                /\ m.vaddr # m.paddr
                /\ vread(descs, maps, m.vaddr, ReadBuf(1)).buf = <<31>>

\* what a persisted descriptor meets at deserialization: no plugin, a plugin
\* that fails to open it, or a plugin that opens it
Reopened(d, dk) ==
    LET i == first_accepting(load_plugins, d.name, 1)
    IN  IF i = 0 THEN de_custom(PluginNotFoundText)
        ELSE LET pd == plugin_open(load_plugins[i], d.name, d.perm, dk)
             IN  IF pd.ok THEN "Ok" ELSE de_custom(fmt_custom(pd.err))

\* C27: deserialization returns an IO exactly when every persisted descriptor
\* is accepted and reopened; otherwise it returns no IO and fails with the
\* error of such a descriptor: IoPluginNotFound where no registered plugin
\* accepts the uri, the plugin's error where the accepting plugin fails.
C27_SerdeAllOrNothing ==
    last.op = "deserialize" =>
        LET old == last.pre.descs
            errs == {Reopened(old[h], last.pre.disk) : h \in DOMAIN old} \ {"Ok"}
        IN  /\ (errs = {}) <=> (last.res = "Ok")
            /\ errs # {} =>
                  /\ last.res \in errs
                  /\ last.buf = <<>>
                  /\ descs = old /\ maps = last.pre.maps
            /\ (\E h \in DOMAIN old :
                    first_accepting(load_plugins, old[h].name, 1) = 0)
               \/ last.res # de_custom(PluginNotFoundText)

\* a deserialization that reopened a descriptor and then met one no
\* registered plugin accepts
C27_Witness ==
    /\ last.op = "deserialize"
    /\ last.res = de_custom(PluginNotFoundText)
    /\ \E h, g \in DOMAIN descs :
          /\ descs[h].paddr < descs[g].paddr
          /\ Reopened(descs[h], disk) = "Ok"
          /\ Reopened(descs[g], disk) = de_custom(PluginNotFoundText)

\* the HEX file an open found, and the descriptor it made
HexFile == last.pre.disk["h"]

HexDesc == descs[CHOOSE h \in DOMAIN descs : TRUE]

Largest(S) == CHOOSE k \in S : \A j \in S : j <= k

Smallest(S) == CHOOSE k \in S : \A j \in S : k <= j

\* the record at which parsing of s ends: the first that is an EOF record or
\* is not accepted, Len(s) + 1 when there is none
StopsAt(s) ==
    Smallest({k \in 1..Len(s) : s[k].typ = 1 \/ ~ParseRecordOk(s[k])} \cup {Len(s) + 1})

\* s is a legal stream: its records up to and including the first EOF
\* record are accepted
Legal(s) == StopsAt(s) <= Len(s) /\ ParseRecordOk(s[StopsAt(s)])

\* the base in force at record j: 0, or what the most recent type-02 or
\* type-04 record before j says
BaseAt(s, j) ==
    LET E == {k \in 1..(j - 1) : s[k].typ \in {2, 4}}
    IN  IF E = {} THEN 0
        ELSE LET r == s[Largest(E)]
                 payload == r.data[1] * 256 + r.data[2]
             IN  IF r.typ = 2 THEN payload * 16 ELSE payload * 65536

\* the data records before the EOF record that hold a byte for key
Writers(s, key) ==
    {j \in 1..(StopsAt(s) - 1) :
        /\ s[j].typ = 0
        /\ BaseAt(s, j) + s[j].addr <= key
        /\ key < BaseAt(s, j) + s[j].addr + s[j].cnt}

\* the four payload bytes of the last record of type typ before the EOF
\* record, as a number
LastDword(s, typ) ==
    LET d == s[Largest({j \in 1..(StopsAt(s) - 1) : s[j].typ = typ})].data
    IN  ((d[1] * 256 + d[2]) * 256 + d[3]) * 256 + d[4]

\* C28: opening a legal stream gives the sparse map that holds, for every
\* data record before the first EOF record, payload byte i at key
\* current_base + AAAA + i, the last such record winning; current_base is 0,
\* then the payload of the most recent type-02 record << 4 or type-04 record
\* << 16; ssa and sla are the payloads of the last type-03 and type-05 record,
\* None without one; what follows the first EOF record has no effect.
C28_IHexParse ==
    (last.op = "open" /\ Legal(HexFile)) =>
        /\ DOMAIN descs # {}
        /\ LET s == HexFile
               d == HexDesc
               keys == UNION {{BaseAt(s, j) + s[j].addr + i : i \in 0..(s[j].cnt - 1)} :
                                 j \in {k \in 1..(StopsAt(s) - 1) : s[k].typ = 0}}
           IN  /\ DOMAIN d.bytes = keys
               /\ \A key \in keys :
                     LET j == Largest(Writers(s, key))
                     IN  d.bytes[key] = s[j].data[key - (BaseAt(s, j) + s[j].addr) + 1]
               /\ IF \E j \in 1..(StopsAt(s) - 1) : s[j].typ = 3
                  THEN d.ssa = LastDword(s, 3) ELSE d.ssa = None
               /\ IF \E j \in 1..(StopsAt(s) - 1) : s[j].typ = 5
                  THEN d.sla = LastDword(s, 5) ELSE d.sla = None

\* a type-02 and then a type-04 record, a data record under the base of the
\* latter, and a record after the EOF record
C28_Witness ==
    /\ last.op = "open" /\ DOMAIN descs # {}
    /\ Len(HexFile) = 4
    /\ HexFile[1].typ = 2 /\ HexFile[2].typ = 4 /\ HexFile[3].typ = 0
    /\ HexFile[4].typ = 1
    /\ DOMAIN HexDesc.bytes = {65536, 65537}

\* C29: when the k-th record of the stream, every record counted, is the
\* first that is not accepted, or the stream ends after k - 1 records without
\* an EOF record, open fails with the Custom error 'Invalid Ihex entry at
\* line' that names k, and no descriptor is made; the stream that is an EOF
\* record alone is opened with size 0.
C29_IHexParseError ==
    last.op = "open" =>
        LET s == HexFile
            k == StopsAt(s)
        IN  /\ ~Legal(s) =>
                  /\ descs = last.pre.descs
                  /\ next_hndl = last.pre.next_hndl
                  /\ last.res = <<"Custom", "Invalid Ihex entry at line", k>>
            /\ Legal(s) => DOMAIN descs # {}
            /\ (Len(s) = 1 /\ Legal(s)) =>
                  /\ DOMAIN descs # {}
                  /\ HexDesc.size = 0
                  /\ HexDesc.bytes = EmptyBytes

\* a record of a type that does not exist, third after a type-04 record
\* and a data record
C29_Witness ==
    /\ last.op = "open" /\ descs = <<>>
    /\ Len(HexFile) = 4
    /\ HexFile[1].typ = 4 /\ HexFile[2].typ = 0 /\ ParseRecordOk(HexFile[2])
    /\ HexFile[3].typ = 6
    /\ last.res = <<"Custom", "Invalid Ihex entry at line", 3>>

\* the values written into the checksum fields
CksValues == {0, 255}

\* the streams that differ from s in checksum fields alone
CksVariants(s) ==
    {[k \in 1..Len(s) |-> [s[k] EXCEPT !.cks = c[k]]] : c \in [1..Len(s) -> CksValues]}

\* C30: the checksum fields have no influence: a stream that differs from the
\* opened one in checksum fields alone is rejected when that one was, and
\* accepted with the same sparse map, ssa and sla when that one was.
C30_ChecksumIgnored ==
    last.op = "open" =>
        \A s2 \in CksVariants(HexFile) :
            LET r == ihex_open(last.args[1], last.args[2],
                               [last.pre.disk EXCEPT !["h"] = s2])
            IN  /\ r.ok <=> (DOMAIN descs # {})
                /\ r.ok => /\ r.bytes = HexDesc.bytes
                           /\ r.ssa = HexDesc.ssa
                           /\ r.sla = HexDesc.sla

\* an open of a stream whose data record does not carry the checksum its
\* bytes add up to
C30_Witness ==
    /\ last.op = "open" /\ DOMAIN descs # {}
    /\ HexFile[1].typ = 0
    /\ (HexFile[1].cnt + HexFile[1].addr + SumData(HexFile[1].data)
           + HexFile[1].cks) % 256 # 0
    /\ HexDesc.bytes # EmptyBytes
    /\ \E s2 \in CksVariants(HexFile) : s2[1].cks # HexFile[1].cks

\* ------------------------------------------------------------------------
\* C31: for every Intel HEX sparse map, size() is max_key - min_key + 1 and
\* the base the plugin reports as raddr is min_key when the map has a key;
\* both are 0 when it has none.  The unoccupied keys between the lowest and
\* the highest occupied one count towards the size.
C31_SizeAndBase ==
    /\ \A h \in DOMAIN descs :
         LET K == DOMAIN descs[h].bytes
         IN  /\ size(descs[h].bytes) = IF K = {} THEN 0 ELSE Largest(K) - Smallest(K) + 1
             /\ base(descs[h].bytes) = IF K = {} THEN 0 ELSE Smallest(K)
    /\ (last.op = "open" /\ DOMAIN descs # {}) =>
         LET K == DOMAIN HexDesc.bytes
         IN  /\ HexDesc.size = IF K = {} THEN 0 ELSE Largest(K) - Smallest(K) + 1
             /\ HexDesc.raddr = IF K = {} THEN 0 ELSE Smallest(K)

\* a file whose lowest key is not 0 and whose keys have a hole has been opened
C31_Witness ==
    /\ last.op = "open" /\ DOMAIN descs # {}
    /\ DOMAIN HexDesc.bytes # {}
    /\ HexDesc.raddr > 0
    /\ HexDesc.size > Cardinality(DOMAIN HexDesc.bytes)

\* C32: the plugin's read(raddr, buf) never fails; buf[i] becomes the byte
\* at key raddr + i, or 0 when that key is unoccupied, below the lowest and
\* above the highest key as well; the sparse map and the file stay as they
\* were.
C32_ReadNeverFails ==
    last.op = "plugin_read" =>
        LET d == last.pre.descs[last.args[1]]
            raddr == last.args[2]
            n == last.args[3]
        IN  /\ last.res = "Ok"
            /\ Len(last.buf) = n
            /\ \A i \in 0..(n - 1) :
                 last.buf[i + 1] = IF (raddr + i) \in DOMAIN d.bytes
                                   THEN d.bytes[raddr + i] ELSE 0
            /\ descs = last.pre.descs
            /\ disk = last.pre.disk

\* one read took a key below the lowest, an occupied key and a key above
\* the highest
C32_Witness ==
    /\ last.op = "plugin_read"
    /\ LET K == DOMAIN descs[last.args[1]].bytes
           R == last.args[2]..(last.args[2] + last.args[3] - 1)
       IN  /\ K # {}
           /\ \E a \in R : a < Smallest(K)
           /\ \E a \in R : a \in K /\ last.buf[a - last.args[2] + 1] # 0
           /\ \E a \in R : a > Largest(K)

\* ------------------------------------------------------------------------
\* The file a flushing write leaves.

\* a write through the plugin returned Ok on a descriptor opened with WRITE
Flushed ==
    /\ last.op = "plugin_write" /\ last.res = "Ok"
    /\ "WRITE" \in descs[last.hndl].perm

DataRecs(s) == {j \in 1..Len(s) : s[j].typ = 0}

FirstKey(s, j) == BaseAt(s, j) + s[j].addr

LastKey(s, j) == FirstKey(s, j) + Len(s[j].data) - 1

\* C35: the flush emits the occupied keys in ascending order; each type-00
\* record carries 1 to 16 bytes with consecutive keys and its byte-count
\* field is the number of its payload bytes; a record is closed when it
\* holds 16 bytes or when the next key is not the previous one plus 1; every
\* occupied key is in exactly one data record and no unoccupied key is in
\* any.
C35_DataLines ==
    Flushed =>
        LET F == disk["h"]
            b == descs[last.hndl].bytes
        IN  /\ \A j \in DataRecs(F) :
                 /\ Len(F[j].data) \in 1..16
                 /\ F[j].cnt = Len(F[j].data)
                 /\ \A i \in 1..Len(F[j].data) :
                      /\ (FirstKey(F, j) + i - 1) \in DOMAIN b
                      /\ b[FirstKey(F, j) + i - 1] = F[j].data[i]
            /\ \A j, k \in DataRecs(F) :
                 j < k =>
                    /\ LastKey(F, j) < FirstKey(F, k)
                    /\ (\A m \in DataRecs(F) : ~(j < m /\ m < k)) =>
                          \/ Len(F[j].data) = 16
                          \/ FirstKey(F, k) # LastKey(F, j) + 1
            /\ \A key \in DOMAIN b :
                 Cardinality({j \in DataRecs(F) :
                                FirstKey(F, j) <= key /\ key <= LastKey(F, j)}) = 1

\* a run of 17 keys has been written as a line of 16 bytes and a line that
\* starts at the next key, and a line has ended at a hole
C35_Witness ==
    /\ Flushed
    /\ LET F == disk["h"]
       IN  /\ \E j, k \in DataRecs(F) :
                /\ j < k /\ Len(F[j].data) = 16
                /\ FirstKey(F, k) = LastKey(F, j) + 1
           /\ \E j, k \in DataRecs(F) :
                /\ j < k /\ Len(F[j].data) < 16
                /\ FirstKey(F, k) > LastKey(F, j) + 1

\* the sum the checksum of record r is taken over: byte count, the two
\* address bytes, type and payload bytes
RecSum(r) == r.cnt + (r.addr \div 256) + (r.addr % 256) + r.typ + SumData(r.data)

\* C34: every record the flush emits (types 00, 02, 03, 04 and 05, the data
\* records shorter than 16 bytes and the last data record among them)
\* carries as checksum the two-hex-digit value (256 - (S mod 256)) mod 256,
\* S being the sum of its byte count, address bytes, type and payload bytes.
C34_ChecksumOnWrite ==
    Flushed =>
        \A j \in 1..Len(disk["h"]) :
            LET r == disk["h"][j]
            IN  r.cks = (256 - (RecSum(r) % 256)) % 256

\* C33: after a write with WRITE permission on a descriptor opened from a
\* legal file, the file the flush produced is a legal record stream, and
\* opening it again gives the same sparse map, ssa and sla as the plugin
\* holds in memory.
C33_PersistenceRoundTrip ==
    Flushed =>
        LET d == descs[last.hndl]
            r == ihex_open(d.name, {"READ"}, disk)
        IN  /\ Legal(disk["h"])
            /\ r.ok
            /\ r.bytes = d.bytes
            /\ ToString(r.ssa) = ToString(d.ssa)
            /\ ToString(r.sla) = ToString(d.sla)

\* ------------------------------------------------------------------------
\* C37: for every sequence of inserts and every query (key, tolerance), the
\* first vector find returns holds the values of exactly the inserted keys
\* at distance 0 from key, and the second exactly the inserted keys k with
\* 0 < distance(k, key) <= tolerance, for the optimal string alignment
\* distance: no inserted key within the tolerance is missed, none outside it
\* is returned.
C37_FindCompleteAndSound ==
    last.op = "find" =>
        LET key == last.args[1]
            tolerance == last.args[2]
            exact == last.buf[1]
            near == last.buf[2]
            ins == tree.inserted
        IN  /\ {exact[i] : i \in DOMAIN exact}
                 = {i \in DOMAIN ins : osa_distance(ins[i], key) = 0}
            /\ Len(exact) = Cardinality({i \in DOMAIN ins : osa_distance(ins[i], key) = 0})
            /\ \A w \in Words :
                 Cardinality({i \in DOMAIN near : near[i] = w})
                   = Cardinality({i \in DOMAIN ins :
                                    /\ ins[i] = w
                                    /\ 0 < osa_distance(w, key)
                                    /\ osa_distance(w, key) <= tolerance})

\* ------------------------------------------------------------------------
\* The mode commands.

\* the virtual aliases of physical address p
Aliases(ms, p) ==
    {m.vaddr + (p - m.paddr) : m \in {x \in ms : x.paddr <= p /\ p < x.paddr + x.size}}

\* the last two calls were `mode vir`, run in physical mode, and `mode phy`
VirThenPhy ==
    /\ last.op = "mode" /\ last.args[1] = <<"phy">>
    /\ last.calls # <<>>
    /\ last.calls[1].args = <<"vir">>
    /\ last.calls[1].core.mode = "Phy"

\* C38 as stated: from physical mode at p, `mode vir` then `mode phy` ends
\* in physical mode at p, through the lowest alias of p when it has one and
\* without any change of location when it has none; a request for the mode
\* already active changes neither mode nor location.
C38_ModeRoundTrip ==
    /\ VirThenPhy =>
         LET p == last.calls[1].core.loc
         IN  /\ core = [mode |-> "Phy", loc |-> p]
             /\ last.buf[1].mode = "Vir"
             /\ last.buf[1].loc = IF Aliases(maps, p) = {} THEN p
                                  ELSE Smallest(Aliases(maps, p))
    /\ (last.op = "mode" /\ last.args[1] \in {<<"vir">>, <<"phy">>}
          /\ last.buf[1].mode = (IF last.args[1] = <<"vir">> THEN "Vir" ELSE "Phy"))
         => core = last.buf[1]

\* C38, amended: the round trip ends in physical mode at p when p has a
\* virtual alias, and when it has none and p is not itself a mapped virtual
\* address; when p has no alias and, read as a virtual address, is mapped to
\* q, `mode vir` leaves the location at p and `mode phy` moves it to q.  A
\* request for the mode already active changes neither mode nor location.
C38_ModeSwitch ==
    /\ VirThenPhy =>
         LET p == last.calls[1].core.loc
         IN  /\ last.buf[1].mode = "Vir"
             /\ last.buf[1].loc = IF Aliases(maps, p) = {} THEN p
                                  ELSE Smallest(Aliases(maps, p))
             /\ core.mode = "Phy"
             /\ (Aliases(maps, p) # {} \/ Trans(maps, p) = {}) => core.loc = p
             /\ (Aliases(maps, p) = {} /\ Trans(maps, p) # {}) => core.loc \in Trans(maps, p)
    /\ (last.op = "mode" /\ last.args[1] \in {<<"vir">>, <<"phy">>}
          /\ last.buf[1].mode = (IF last.args[1] = <<"vir">> THEN "Vir" ELSE "Phy"))
         => core = last.buf[1]

\* a round trip from a location with two aliases, the lower of which is not
\* the location itself
C38_Witness ==
    /\ VirThenPhy
    /\ Cardinality(Aliases(maps, core.loc)) = 2
    /\ last.buf[1].loc # core.loc

HandlesOn ==
    Cardinality({h \in DOMAIN descs : descs[h].name.path = "h" /\ descs[h].file = File})
      + (IF flush.wfile THEN 1 ELSE 0)

IsPrefix(s, t) == Len(s) <= Len(t) /\ s = SubSeq(t, 1, Len(s))

\* the file the flush of descriptor d writes: start-address records, data
\* records, the EOF record
Rewritten(d) == write_sa(d.ssa, d.sla) \o write_data(d.bytes) \o <<Rec(1, 0, 0, <<>>, 255)>>

\* C36: in a write with WRITE permission the plugin first releases its
\* handle on the raw file, then truncates the file and writes start-address
\* records, data records and the EOF record in that order, and only after
\* the EOF record takes a read handle again; at no point are two handles on
\* the file live, and after a successful write exactly one is held.
C36_FlushOrdering ==
    [][/\ HandlesOn' <= 1
       /\ disk'["h"] # disk["h"] =>
             /\ \A h \in DOMAIN descs : descs[h].file = Dummy
             /\ disk'["h"] = <<>> \/ IsPrefix(disk["h"], disk'["h"])
       /\ flush'.wfile => IsPrefix(disk'["h"], Rewritten(descs'[flush'.hndl]))
       /\ \A h \in DOMAIN descs :
             (descs[h].file = Dummy /\ descs'[h].file = File) =>
                /\ ~flush.wfile
                /\ disk["h"] = Rewritten(descs[h])
       /\ (last.res = "Running" /\ last'.res = "Ok") => HandlesOn' = 1
      ]_vars

\* a flush that wrote a start-address record and data records has returned
\* Ok
C36_Witness ==
    /\ last.op = "plugin_write" /\ last.res = "Ok"
    /\ "WRITE" \in descs[last.hndl].perm
    /\ descs[last.hndl].file = File
    /\ disk["h"] # last.pre.disk["h"]
    /\ \E j \in 1..Len(disk["h"]) : disk["h"][j].typ = 3
    /\ Cardinality(DataRecs(disk["h"])) >= 2

\* C40: a failed flush is not rolled back.  When truncating, rewriting or
\* re-opening the file fails, write returns the error; the sparse map holds
\* the bytes of the write, the file is as it was, or truncated, or written
\* in part or in full, and the plugin is left with the placeholder handle.
C40_NoRollback ==
    (last.op = "plugin_write" /\ last.res = IoFailed) =>
        LET d == descs[last.hndl]
            before == last.pre.descs[last.hndl]
        IN  /\ d.bytes = InsertAll(before.bytes, last.args[2], last.args[3])
            /\ d.file = Dummy
            /\ HandlesOn = 0
            /\ \/ disk["h"] = last.pre.disk["h"]
               \/ IsPrefix(disk["h"], Rewritten(d))

\* a write that changed the sparse map has failed with the file written in
\* part
C40_Witness ==
    /\ last.op = "plugin_write" /\ last.res = IoFailed
    /\ descs[last.hndl].bytes # last.pre.descs[last.hndl].bytes
    /\ disk["h"] # <<>>
    /\ disk["h"] # last.pre.disk["h"]
    /\ Len(disk["h"]) < Len(Rewritten(descs[last.hndl]))

====
